---- MODULE Spec2Model ----
(***************************************************************************)
(* jsgen: the schema extractor (src/jsgen/jsgen.c parse_file and its       *)
(* handlers), the code emitter (generate_model_code) together with the     *)
(* behaviour of the code it emits, the JSON builder (src/jsb.h) the        *)
(* emitted stringifiers call, the driver (main), the hash map of src/ds.h  *)
(* and the basic allocator of src/jsgen/jsgen.h.                           *)
(*                                                                         *)
(* C strings are TLA+ strings; a type string ("struct Foo*") is the        *)
(* sequence of its parts (<<"struct ", "Foo", "*">>) so that strcmp and    *)
(* the stripping of a trailing '*' can be computed.  JSON text is a        *)
(* sequence of one-character strings.                                      *)
(***************************************************************************)
EXTENDS Integers, Sequences, FiniteSets, TLC

VARIABLES
    vocab,      \* scanner: the phrases the scanned file is made of
    lex,        \* scanner: stb_lexer (unread input, current token, string)
    p,          \* scanner: Parser flags and level
    m,          \* scanner: the working Model (parse_file's local m)
    models,     \* scanner: the registry (Models *models)
    status,     \* scanner: position of parse_file: "scan", "ok", "fail", ...
    last,       \* scanner: what the last main-loop iteration did
    emitted,    \* emitter: the generated functions, one entry per Model
    run,        \* generated code: the last call made to a generated function
    drv,        \* driver: main's locals, its exit status and what it wrote
    builder,    \* library: a Jsb under direct calls and the last call made
    hm,         \* library: a ds.h hash map and the last call made
    resolver,   \* emitter: the last type handed to the Type Resolver and its answers
    arena       \* library: jsgen.h's basic allocator and the regions it returned

scanvars == <<vocab, lex, p, m, models, status, last, emitted, run>>

vars == <<vocab, lex, p, m, models, status, last, emitted, run, drv, builder, hm, resolver, arena>>

(***************************************************************************)
(* Bounds of the exploration.                                              *)
(***************************************************************************)
MaxFields == 2      \* fields held by the working Model and the registry together
MaxModels == 1      \* Models in the registry
MaxLevel  == 2      \* brace depth explored (and one closing brace below 0)
MaxDrain  == 4      \* tokens read between a field's brackets

(***************************************************************************)
(* Tokens.  k is the lexer's token class: "id" (CLEX_id), "str"            *)
(* (CLEX_dqstring), "int" (CLEX_intlit), "p" (a single character, in s),   *)
(* "err" (CLEX_parse_error), "eof" (CLEX_eof).                             *)
(***************************************************************************)
Id(s)  == [k |-> "id",  s |-> s]
Str(s) == [k |-> "str", s |-> s]
Ch(c)  == [k |-> "p",   s |-> c]
IntLit == [k |-> "int", s |-> "2"]
ErrTok == [k |-> "err", s |-> ""]
EofTok == [k |-> "eof", s |-> ""]
NoTok  == [k |-> "none", s |-> ""]

Last(q)  == q[Len(q)]
Front(q) == SubSeq(q, 1, Len(q) - 1)

(***************************************************************************)
(* The files scanned are the concatenations, in any order and number, of   *)
(* the phrases of one vocabulary.  Each vocabulary has a declaration       *)
(* header, the closing brace and the statement terminator, and adds the    *)
(* field declarations, annotations or malformed pieces of one group of     *)
(* cases.                                                                  *)
(***************************************************************************)
Header == <<Id("JSON"), Id("struct"), Id("n"), Ch("{")>>
HeaderS == <<Id("JSONS"), Id("struct"), Id("n"), Ch("{")>>
Closers == { <<Ch("}")>>, <<Ch(";")>> }

Vocabs ==
    [modes    |-> Closers \cup
                  { <<Id("JSON")>>, <<Id("JSONS")>>, <<Id("JSONP")>>, <<Id("struct")>>,
                    <<Id("typedef")>>, <<Ch("{")>> },
     prefixed |-> Closers \cup
                  { <<Id("JSGEN_JSON")>>, <<Id("JSGEN_JSONS")>>, <<Id("JSGEN_JSONP")>>,
                    <<Id("struct"), Id("n"), Ch("{")>>, <<Id("int"), Id("n")>> },
     fields   |-> Closers \cup
                  { Header, <<Id("int"), Id("n")>>, <<Id("Foo"), Ch("*"), Id("a")>> },
     typedefs |-> Closers \cup
                  { <<Id("JSONS"), Id("typedef"), Id("struct"), Ch("{")>>,
                    <<Id("struct"), Id("Foo"), Ch("*"), Id("a")>>, <<Ch("}"), Id("n")>> },
     arrays   |-> Closers \cup
                  { HeaderS, <<Id("int"), Id("a"), Ch("["), IntLit, Ch("]")>>,
                    <<Id("Foo"), Id("a"), Ch("["), Ch("]")>>,
                    <<Id("char"), Ch("*"), Id("n")>> },
     counter  |-> Closers \cup
                  { Header, <<Id("int"), Id("n")>>, <<Id("Foo"), Ch("*"), Id("a")>>,
                    <<Id("sized_by"), Ch("("), Str("n"), Ch(")")>>,
                    <<Id("jsgen_sized_by"), Ch("("), Str("a"), Ch(")")>> },
     scalars  |-> Closers \cup
                  { HeaderS, <<Id("int"), Id("n")>>,
                    <<Id("int"), Ch("*"), Id("a"), Id("sized_by"), Ch("("), Str("n"), Ch(")")>> },
     alias    |-> Closers \cup
                  { Header, <<Id("char"), Ch("*"), Id("n")>>,
                    <<Id("alias"), Ch("("), Str("x"), Ch(")")>>, <<Id("json_literal")>> },
     ignore   |-> Closers \cup
                  { Header, <<Id("int"), Id("n")>>,
                    <<Id("jsgen_ignore"), Ch("("), Ch(")")>>,
                    <<Id("sized_by"), Ch("("), Str("x"), Ch(")")>> },
     errors   |-> Closers \cup
                  { Header, <<Id("int"), Id("n")>>, <<ErrTok>> },
     const    |-> Closers \cup
                  { Header, <<Id("int"), Id("n")>>, <<Id("const"), Id("int"), Id("a")>> },
     odd      |-> Closers \cup
                  { Header, <<Id("int"), Id("a"), Ch("["), Id("n"), Id("a"), Ch("]")>>,
                    <<Id("int"), Id("a"), Ch("["), Id("n"), Ch("*"), Id("n"), Ch("]")>>,
                    <<Id("int"), Id("a"), Ch("[")>> },
     kwname   |-> Closers \cup
                  { Header, <<Id("int"), Id("JSONP")>> },
     strings  |-> Closers \cup
                  { Header, <<Id("char"), Ch("*"), Id("n")>>, <<Id("char"), Id("n")>>,
                    <<Id("char"), Id("a"), Ch("["), IntLit, Ch("]")>>,
                    <<Id("struct"), Id("char"), Ch("*"), Id("a")>> }]

(***************************************************************************)
(* The lexer as parse_file and its handlers use it: stb_c_lexer_get_token  *)
(* delivers the next token of the file.  The file is made up as it is      *)
(* read: ahead holds the tokens already fixed (the rest of a phrase, or    *)
(* tokens handed back by restoring parse_point), and a fresh phrase or the *)
(* end of the file is chosen when ahead is empty.  string is lex->string:  *)
(* only an identifier or a string literal overwrites it.  since holds the  *)
(* tokens read after the last saved parse_point.                           *)
(***************************************************************************)
Feed(L, t, rest) ==
    [ahead  |-> rest,
     ended  |-> L.ended \/ t.k = "eof",
     token  |-> t,
     string |-> IF t.k \in {"id", "str"} THEN t.s ELSE L.string,
     since  |-> Append(L.since, t)]

GetToken(L, V) ==
    IF L.ahead # <<>> THEN { Feed(L, Head(L.ahead), Tail(L.ahead)) }
    ELSE IF L.ended THEN { Feed(L, EofTok, <<>>) }
    ELSE { Feed(L, Head(ph), Tail(ph)) : ph \in V } \cup { Feed(L, EofTok, <<>>) }

(* parse_field's last statement if it did not hand the tokens back. *)
KeepPoint(L) == [L EXCEPT !.since = <<>>]

SavePoint(L)    == [L EXCEPT !.since = <<>>]
RestorePoint(L) == [L EXCEPT !.ahead = L.since \o L.ahead, !.since = <<>>]

(***************************************************************************)
(* Field and Model (jsgen.c:11-33), zero-initialized.                      *)
(***************************************************************************)
Field0 ==
    [name |-> "", alias |-> "", has_alias |-> FALSE, type |-> <<>>,
     simple_type |-> "", is_pointer |-> FALSE, is_array |-> FALSE,
     has_counter |-> FALSE, counter_field |-> "", is_counter_field |-> FALSE,
     is_json_literal |-> FALSE]

Model0 ==
    [name |-> <<>>, simple_name |-> "", stringify |-> FALSE, parse |-> FALSE,
     fields |-> <<>>]

Parser0 ==
    [level |-> 0, in_typedef |-> FALSE, in_struct |-> FALSE,
     in_substruct |-> FALSE, is_field |-> FALSE, can_generate |-> FALSE]

(* The key a field would have if its alias were not looked at. *)
DeclaredName(field) == field.name

js_getalias(field) == IF field.has_alias THEN field.alias ELSE field.name

(***************************************************************************)
(* post_process_model: for every field with a counter, the first field of  *)
(* the model with that name is marked is_counter_field.                    *)
(***************************************************************************)
(* A counter resolution that marks nothing. *)
MarkNothing(fields, counter, j) == fields

RECURSIVE MarkCounter(_, _, _)
MarkCounter(fields, counter, j) ==
    IF j > Len(fields) THEN fields
    ELSE IF fields[j].name = counter
         THEN [fields EXCEPT ![j].is_counter_field = TRUE]
         ELSE MarkCounter(fields, counter, j + 1)

RECURSIVE PostProcessFrom(_, _)
PostProcessFrom(fields, i) ==
    IF i > Len(fields) THEN fields
    ELSE PostProcessFrom(
            IF fields[i].has_counter
            THEN MarkCounter(fields, fields[i].counter_field, 1)
            ELSE fields,
            i + 1)

post_process_model(model) ==
    [model EXCEPT !.fields = PostProcessFrom(model.fields, 1)]

(***************************************************************************)
(* The handlers work on S = [lex, p, m, models, st]: the lexer, the Parser *)
(* flags, the working Model, the registry and how the run goes on ("run",  *)
(* "crash" after a store through a null pointer, "hang" in a loop that no  *)
(* token ends).  Each returns the set of its outcomes: one per way the     *)
(* unread part of the file can continue.                                   *)
(***************************************************************************)
SetLex(S, L) == [S EXCEPT !.lex = L]

(* da_last(&fields): the index of the last field, 0 for NULL. *)
da_last(fields) == Len(fields)

(* The same stores if they went to the first field instead of the last. *)
StoreFirst(S, L, stores) ==
    IF da_last(S.m.fields) = 0
    THEN { [SetLex(S, L) EXCEPT !.st = "crash"], SetLex(S, L) }
    ELSE LET field == S.m.fields[1] IN
         { [SetLex(S, L) EXCEPT
               !.m.fields[1] =
                   [k \in DOMAIN field |->
                       IF k \in DOMAIN stores THEN stores[k] ELSE field[k]]] }

(* field->... = ... through da_last's result: a store through NULL either  *)
(* ends the process or is lost.                                            *)
StoreLast(S, L, stores) ==
    IF da_last(S.m.fields) = 0
    THEN { [SetLex(S, L) EXCEPT !.st = "crash"], SetLex(S, L) }
    ELSE LET field == S.m.fields[da_last(S.m.fields)] IN
         { [SetLex(S, L) EXCEPT
               !.m.fields[da_last(S.m.fields)] =
                   [k \in DOMAIN field |->
                       IF k \in DOMAIN stores THEN stores[k] ELSE field[k]]] }

(* The ignore test if it knew the short spelling only. *)
IsShortIgnoreKw(s) == s = "ignore"

IsAliasKw(s)   == s = "alias" \/ s = "jsgen_alias"
IsSizedByKw(s) == s = "sized_by" \/ s = "jsgen_sized_by"
IsIgnoreKw(s)  == s = "jsgen_ignore"
IsLiteralKw(s) == s = "jsgen_json_literal" \/ s = "json_literal"

(* parse_field_annotation: the outcomes [s |-> S', handled |-> 0 or 1]. *)
parse_field_annotation(S, V) ==
    LET kw == S.lex.string
        Two == UNION { GetToken(L1, V) : L1 \in GetToken(S.lex, V) }
        Ret(T, r) == { [s |-> x, handled |-> r] : x \in T }
    IN  IF ~S.p.is_field THEN Ret({S}, 0)
        ELSE IF IsAliasKw(kw) THEN
            Ret(UNION { StoreLast(S, L2, [has_alias |-> TRUE, alias |-> L2.string])
                        : L2 \in Two }, 1)
        ELSE IF IsSizedByKw(kw) THEN
            Ret(UNION { StoreLast(S, L2, [has_counter |-> TRUE, is_array |-> TRUE,
                                              counter_field |-> L2.string])
                        : L2 \in Two }, 1)
        ELSE IF IsIgnoreKw(kw) THEN
            Ret({ IF Len(S.m.fields) > 0
                  THEN [S EXCEPT !.m.fields = Front(S.m.fields)]
                  ELSE S }, 1)
        ELSE IF IsLiteralKw(kw) THEN
            Ret(StoreLast(S, S.lex, [is_json_literal |-> TRUE]), 1)
        ELSE Ret({S}, 0)

(* The loop of parse_field that reads up to the closing bracket.  At the   *)
(* end of the file the lexer keeps delivering CLEX_eof and the loop never  *)
(* ends.  n counts the tokens read.                                        *)
RECURSIVE DrainBrackets(_, _, _)
DrainBrackets(L, V, n) ==
    IF L.token = Ch("]") THEN { [l |-> L, hang |-> FALSE] }
    ELSE IF L.token.k = "eof" THEN { [l |-> L, hang |-> TRUE] }
    ELSE IF n >= MaxDrain THEN {}
    ELSE UNION { DrainBrackets(L1, V, n + 1) : L1 \in GetToken(L, V) }

(* parse_field after the field is appended: the bracket look-ahead and     *)
(* the restoring of parse_point.                                           *)
ParseFieldBrackets(S, V) ==
    UNION { IF L3.token = Ch("[")
            THEN { IF d.hang
                   THEN [S EXCEPT !.lex = d.l, !.st = "hang",
                                  !.m.fields[Len(S.m.fields)].is_array = TRUE,
                                  !.m.fields[Len(S.m.fields)].is_pointer = TRUE]
                   ELSE [S EXCEPT !.lex = RestorePoint(d.l),
                                  !.m.fields[Len(S.m.fields)].is_array = TRUE,
                                  !.m.fields[Len(S.m.fields)].is_pointer = TRUE]
                   : d \in DrainBrackets(L3, V, 0) }
            ELSE { SetLex(S, RestorePoint(L3)) }
          : L3 \in GetToken(SavePoint(S.lex), V) }

(* The declared type if the prefix were left out of it. *)
FieldTypeBare(type_prefix, string) == <<string>>

(* strcpy(field.type, type_prefix); strcat(field.type, p->lex->string); *)
FieldType(type_prefix, string) == type_prefix \o <<string>>

(* parse_field, from the type identifier in lex->string. *)
parse_field(S, type_prefix, V) ==
    LET field0 == [Field0 EXCEPT !.type = FieldType(type_prefix, S.lex.string),
                                 !.simple_type = S.lex.string]
        AfterStar(L1) ==
            IF L1.token = Ch("*")
            THEN { [l |-> L2, f |-> [field0 EXCEPT !.is_pointer = TRUE,
                                                   !.type = field0.type \o <<"*">>]]
                   : L2 \in GetToken(L1, V) }
            ELSE { [l |-> L1, f |-> field0] }
        Named(x) ==
            IF x.l.token.k = "id"
            THEN ParseFieldBrackets(
                     [S EXCEPT !.lex = x.l,
                               !.m.fields = Append(S.m.fields,
                                                   [x.f EXCEPT !.name = x.l.string])], V)
            ELSE { SetLex(S, x.l) }
    IN  UNION { UNION { Named(x) : x \in AfterStar(L1) } : L1 \in GetToken(S.lex, V) }

(* The enabling keywords if only the short forms were looked for. *)
IsShortInitializer(s) == s \in {"JSON", "JSONS", "JSONP"}

is_json_initializer(s) ==
    s \in {"JSON", "JSGEN_JSON", "JSONS", "JSGEN_JSONS", "JSONP", "JSGEN_JSONP"}

(* The name position if in_typedef were not looked at. *)
SetNamePrefixed(S, s) ==
    [S EXCEPT !.m.name = <<"struct ", s>>, !.m.simple_name = s]

(* handle_id at the name position: strcpy or sprintf("struct %s") into     *)
(* name, strcpy into simple_name.                                          *)
SetName(S, s) ==
    [S EXCEPT !.m.name = IF S.p.in_typedef THEN <<s>> ELSE <<"struct ", s>>,
              !.m.simple_name = s]

(* handle_id after the enabling keywords and the can_generate test. *)
HandleEnabledId(S, V) ==
    LET s == S.lex.string
    IN  IF s = "typedef" THEN { [S EXCEPT !.p.in_typedef = TRUE] }
        ELSE IF s = "struct" THEN
            { IF S.p.in_struct THEN [S EXCEPT !.p.in_substruct = TRUE]
                               ELSE [S EXCEPT !.p.in_struct = TRUE] }
        ELSE UNION {
            IF a.handled = 1 THEN { a.s }
            ELSE IF a.s.p.in_struct /\ a.s.p.level = 0 THEN
                { SetName(a.s, s) }
            ELSE IF a.s.p.in_struct /\ a.s.p.level = 1 THEN
                { [x EXCEPT !.p.in_substruct = FALSE, !.p.is_field = TRUE]
                  : x \in parse_field(a.s, IF a.s.p.in_substruct THEN <<"struct ">> ELSE <<>>, V) }
            ELSE { a.s }
            : a \in parse_field_annotation(S, V) }

handle_id(S, V) ==
    LET s == S.lex.string
    IN  IF is_json_initializer(s) THEN
            { [S EXCEPT !.p.can_generate = TRUE,
                        !.m.stringify = ~(s = "JSONP" \/ s = "JSGEN_JSONP"),
                        !.m.parse = IF s = "JSONP" \/ s = "JSGEN_JSONP" THEN TRUE
                                    ELSE ~(s = "JSONS" \/ s = "JSGEN_JSONS")] }
        ELSE IF ~S.p.can_generate THEN { S }
        ELSE IF s = "const"
             THEN UNION { HandleEnabledId(SetLex(S, L1), V) : L1 \in GetToken(S.lex, V) }
             ELSE HandleEnabledId(S, V)

(* A statement terminator that finalizes whatever the level is. *)
FinalizeAnywhere(S) ==
    IF S.p.in_struct
    THEN [S EXCEPT !.models = Append(S.models, post_process_model(S.m)),
                   !.m = Model0,
                   !.p.in_substruct = FALSE, !.p.in_struct = FALSE,
                   !.p.in_typedef = FALSE, !.p.can_generate = FALSE]
    ELSE [S EXCEPT !.p.in_substruct = FALSE]

handle_semicolon(S) ==
    IF S.p.level = 0 /\ S.p.in_struct
    THEN [S EXCEPT !.models = Append(S.models, post_process_model(S.m)),
                   !.m = Model0,
                   !.p.in_substruct = FALSE, !.p.in_struct = FALSE,
                   !.p.in_typedef = FALSE, !.p.can_generate = FALSE]
    ELSE [S EXCEPT !.p.in_substruct = FALSE]

(***************************************************************************)
(* The Type Resolver (jsgen.c:62-96).  NULL is the C null pointer a        *)
(* resolver returns for a type it does not know.                           *)
(***************************************************************************)
NULL == "NULL"

(* The parse-time kind if a character were a string with or without its    *)
(* pointer marker.                                                         *)
JspTypeCharIsString(type) ==
    IF type \in {<<"int">>, <<"float">>, <<"double">>, <<"long">>, <<"size_t">>}
    THEN "number"
    ELSE IF type = <<"bool">> THEN "boolean"
    ELSE IF type \in {<<"char", "*">>, <<"char">>} THEN "string"
    ELSE NULL

RECURSIVE get_jsp_type(_)
get_jsp_type(type) ==
    IF type \in {<<"int">>, <<"float">>, <<"double">>, <<"long">>, <<"size_t">>}
    THEN "number"
    ELSE IF type = <<"bool">> THEN "boolean"
    ELSE IF type = <<"char", "*">> THEN "string"
    ELSE IF Len(type) > 1 /\ Last(type) = "*" THEN get_jsp_type(Front(type))
    ELSE NULL

(* The stringify kind if it were the parse-time kind under its builder name. *)
JsbTypeAsParsed(type) ==
    IF get_jsp_type(type) = "boolean" THEN "bool" ELSE get_jsp_type(type)

RECURSIVE get_jsb_type(_)
get_jsb_type(type) ==
    IF type \in {<<"int">>, <<"long">>, <<"size_t">>} THEN "int"
    ELSE IF type \in {<<"float">>, <<"double">>} THEN "number"
    ELSE IF type = <<"bool">> THEN "bool"
    ELSE IF type = <<"char", "*">> THEN "string"
    ELSE IF Len(type) > 1 /\ Last(type) = "*" THEN get_jsb_type(Front(type))
    ELSE NULL

(***************************************************************************)
(* The JSON builder, src/jsb.h.  buffer is the text written so far, a      *)
(* sequence of characters; state is the state stack, state[i + 1] being    *)
(* the C state[i].  Every call returns [j |-> the builder, rc |-> 0 or -1].*)
(* The characters that C writes as escapes are named: LF, TAB, CR, BS.     *)
(***************************************************************************)
JSB_MAX_NESTING == 64

LF  == "<LF>"
TAB == "<TAB>"
CR  == "<CR>"
BS  == "<BS>"

(* A builder as `Jsb jsb = {.pp = indent}` leaves it. *)
JsbZero(pp) ==
    [buffer |-> <<>>, state |-> <<"START">>, level |-> 0, is_first |-> FALSE,
     is_key |-> FALSE, pp |-> pp]

Ok(j)   == [j |-> j, rc |-> 0]
Fail(j) == [j |-> j, rc |-> 0 - 1]

jsb_sappends(j, chars) == [j EXCEPT !.buffer = j.buffer \o chars]

RECURSIVE EscapeFrom(_, _)
EscapeFrom(str, i) ==
    IF i > Len(str) THEN <<>>
    ELSE (IF str[i] = LF THEN <<"\\", "n">>
          ELSE IF str[i] = TAB THEN <<"\\", "t">>
          ELSE IF str[i] = "\"" \/ str[i] = "\\" THEN <<"\\", str[i]>>
          ELSE IF str[i] = BS \/ str[i] = CR THEN <<>>
          ELSE <<str[i]>>) \o EscapeFrom(str, i + 1)

jsb_escaped_nstring(j, str, len) ==
    jsb_sappends(j, <<"\"">> \o EscapeFrom(SubSeq(str, 1, len), 1) \o <<"\"">>)

jsb_check_val(j) ==
    LET state == j.state[j.level + 1]
    IN  IF state = "ARRAY" THEN 0
        ELSE IF state = "OBJECT" /\ j.is_key THEN 0
        ELSE IF state = "START" /\ j.is_first THEN 0
        ELSE 0 - 1

Spaces(n) == [i \in 1..n |-> " "]

jsb_pretty_print_ch(j) ==
    IF j.pp # 0 /\ ~j.is_key
    THEN jsb_sappends(j, <<LF>> \o Spaces(j.level * j.pp))
    ELSE j

jsb_init(j) ==
    [j EXCEPT !.buffer = <<>>, !.level = 0, !.state[1] = "START", !.is_first = TRUE]

jsb_end(j) == IF j.level # 0 THEN j ELSE [j EXCEPT !.state[1] = "END"]

(* `if (!jsb->is_first) jsb_sappend(',')` and the pretty-printing that     *)
(* every value and key starts with.                                        *)
JsbSeparate(j) ==
    jsb_pretty_print_ch(IF ~j.is_first THEN jsb_sappends(j, <<",">>) ELSE j)

(* state[++level] = st: the stack grows by one entry or overwrites a stale one. *)
JsbPush(j, st) ==
    [j EXCEPT !.level = j.level + 1,
              !.state = SubSeq(j.state, 1, j.level + 1) \o <<st>>,
              !.is_first = TRUE, !.is_key = FALSE]

JsbBegin(j0, open, st) ==
    LET j == IF j0.level = 0 THEN jsb_init(j0) ELSE j0
    IN  IF jsb_check_val(j) # 0 THEN Fail(j)
        ELSE Ok(JsbPush(jsb_sappends(JsbSeparate(j), <<open>>), st))

jsb_begin_object(j) == JsbBegin(j, "{", "OBJECT")
jsb_begin_array(j)  == JsbBegin(j, "[", "ARRAY")

(* The values of the JsbState enumeration. *)
JsbStateCode(st) ==
    CASE st = "START" -> 0 [] st = "ARRAY" -> 1 [] st = "OBJECT" -> 2
      [] st = "OBJECT_KEY" -> 3 [] st = "END" -> 4

(* jsb_begin_object and jsb_begin_array compare the level with nothing     *)
(* before `state[++level] = st`.  From level JSB_MAX_NESTING - 1 the store *)
(* goes to state[JSB_MAX_NESTING], one past the array, which is undefined: *)
(* either it lands on the member that follows the array in Jsb, `level`,   *)
(* which then holds the enumeration value stored, or it changes no member  *)
(* and level is left at JSB_MAX_NESTING.  Below that depth the call has    *)
(* the one outcome JsbBegin gives.                                         *)
JsbBeginOutcomes(j, open, st) ==
    IF j.level + 1 < JSB_MAX_NESTING \/ jsb_check_val(j) # 0 THEN {JsbBegin(j, open, st)}
    ELSE { Ok([jsb_sappends(JsbSeparate(j), <<open>>)
               EXCEPT !.level = level, !.is_first = TRUE, !.is_key = FALSE]) :
           level \in {JsbStateCode(st), j.level + 1} }

JsbEnd(j, close) ==
    LET j1 == [j EXCEPT !.level = j.level - 1]
        j2 == jsb_sappends(jsb_pretty_print_ch(j1), <<close>>)
    IN  Ok([jsb_end(j2) EXCEPT !.is_first = FALSE])

jsb_end_object(j) ==
    IF j.level < 1 \/ j.state[j.level + 1] # "OBJECT" THEN Fail(j) ELSE JsbEnd(j, "}")

jsb_end_array(j) ==
    IF j.state[j.level + 1] # "ARRAY" THEN Fail(j) ELSE JsbEnd(j, "]")

jsb_key(j, key) ==
    IF j.state[j.level + 1] # "OBJECT" \/ j.is_key THEN Fail(j)
    ELSE Ok([jsb_sappends(jsb_escaped_nstring(JsbSeparate(j), key, Len(key)), <<":", " ">>)
             EXCEPT !.is_first = TRUE, !.is_key = TRUE])

(* What every value writer does around the text of its value. *)
JsbValue(j, chars) ==
    IF jsb_check_val(j) # 0 THEN Fail(j)
    ELSE Ok([jsb_sappends(JsbSeparate(j), chars) EXCEPT !.is_first = FALSE, !.is_key = FALSE])

jsb_null(j) == JsbValue(j, <<"n", "u", "l", "l">>)

jsb_nstring(j, str, len) ==
    IF str = NULL THEN jsb_null(j)
    ELSE IF jsb_check_val(j) # 0 THEN Fail(j)
    ELSE Ok([jsb_escaped_nstring(JsbSeparate(j), str, len)
             EXCEPT !.is_first = FALSE, !.is_key = FALSE])

(* snprintf("%d"): the decimal digits of an int. *)
Digit(d) == <<"0", "1", "2", "3", "4", "5", "6", "7", "8", "9">>[d + 1]

RECURSIVE Digits(_)
Digits(n) == IF n < 10 THEN <<Digit(n)>> ELSE Digits(n \div 10) \o <<Digit(n % 10)>>

FormatInt(v) == IF v < 0 THEN <<"-">> \o Digits(0 - v) ELSE Digits(v)

jsb_int(j, value) == JsbValue(j, FormatInt(value))

(* snprintf("%.*f") of a whole number: its digits and precision zeros. *)
jsb_number(j, value, precision) ==
    JsbValue(j, FormatInt(value) \o <<".">> \o [i \in 1..precision |-> "0"])

jsb_bool(j, value) ==
    JsbValue(j, IF value THEN <<"t", "r", "u", "e">> ELSE <<"f", "a", "l", "s", "e">>)

(***************************************************************************)
(* The Code Emitter (jsgen.c:259-514).  The emitted text is kept as        *)
(* statements: one record per emitted statement or block, op naming the    *)
(* statement and the other entries the names spliced into its text.        *)
(***************************************************************************)

(* gen_parse_field_body: the body of one branch of the key dispatch.       *)
gen_parse_field_body(field) ==
    LET jsp_type     == get_jsp_type(field.type)
        arr_jsp_type == get_jsp_type(<<field.simple_type>>)
        elem == IF arr_jsp_type # NULL
                THEN [op |-> "elem_value", f |-> field.name, from |-> arr_jsp_type]
                ELSE [op |-> "elem_nested", f |-> field.name, ty |-> field.simple_type]
    IN  IF jsp_type # NULL THEN
            <<[op |-> "value"]>> \o
            (IF jsp_type = "string"
             THEN (IF field.is_json_literal
                   THEN <<[op |-> "capture", f |-> field.name]>> ELSE <<>>) \o
                  (IF field.is_pointer
                   THEN <<[op |-> "strptr", f |-> field.name,
                           counter |-> IF field.has_counter THEN field.counter_field ELSE NULL]>>
                   ELSE <<[op |-> "strncpy", f |-> field.name]>>)
             ELSE <<[op |-> "assign", f |-> field.name, from |-> jsp_type]>>)
        ELSE IF field.is_array THEN
            <<[op |-> "begin_array"],
              IF field.has_counter
              THEN [op |-> "for_len", f |-> field.name, counter |-> field.counter_field,
                    ty |-> field.simple_type, body |-> elem]
              ELSE [op |-> "while_more", f |-> field.name, body |-> elem],
              [op |-> "end_array"]>>
        ELSE IF field.is_pointer THEN
            <<[op |-> "ptr_nested", f |-> field.name, ty |-> field.simple_type]>>
        ELSE
            <<[op |-> "nested", f |-> field.name, ty |-> field.simple_type]>>

(* gen_stringify_field, the statements between the null test's braces:    *)
(* the key and the value.                                                  *)
StringifyKeyValue(field) ==
    LET jsb_type     == get_jsb_type(field.type)
        arr_jsb_type == get_jsb_type(<<field.simple_type>>)
    IN  <<[op |-> "key", k |-> js_getalias(field)]>> \o
        (IF jsb_type # NULL THEN
            IF field.is_json_literal
            THEN <<[op |-> "literal", f |-> field.name]>>
            ELSE <<[op |-> "val", fn |-> jsb_type, f |-> field.name]>>
         ELSE IF field.is_array THEN
            <<[op |-> "begin_array"]>> \o
            (IF field.has_counter
             THEN <<[op |-> "for", counter |-> field.counter_field,
                     body |-> IF arr_jsb_type # NULL
                              THEN [op |-> "elem_val", fn |-> arr_jsb_type, f |-> field.name]
                              ELSE [op |-> "elem_nested", ty |-> field.simple_type,
                                    f |-> field.name]]>>
             ELSE <<>>) \o
            <<[op |-> "end_array"]>>
         ELSE IF field.is_pointer THEN
            <<[op |-> "ptr_nested", ty |-> field.simple_type, f |-> field.name]>>
         ELSE
            <<[op |-> "nested", ty |-> field.simple_type, f |-> field.name]>>)

(* A field's statements if a pointer were not tested before it is written. *)
StringifyUnwrapped(field) ==
    IF field.is_counter_field THEN <<>> ELSE StringifyKeyValue(field)

(* A field's statements if its json_literal mark were not looked at. *)
StringifyUnspliced(field) ==
    LET g == [field EXCEPT !.is_json_literal = FALSE]
    IN  IF g.is_counter_field THEN <<>>
        ELSE IF g.is_pointer
        THEN << [op |-> "if_not_null", f |-> g.name, body |-> StringifyKeyValue(g)] >>
        ELSE StringifyKeyValue(g)

(* gen_stringify_field: the statements one field adds to the stringifier.  *)
gen_stringify_field(field) ==
    IF field.is_counter_field THEN <<>>
    ELSE IF field.is_pointer
    THEN << [op |-> "if_not_null", f |-> field.name, body |-> StringifyKeyValue(field)] >>
    ELSE StringifyKeyValue(field)

(* The key dispatch chain of the record-body parser: one branch per        *)
(* non-counter field, then the skip-value branch.  opener is the text the  *)
(* branch starts with.                                                     *)
RECURSIVE DispatchFrom(_, _)
DispatchFrom(fields, i) ==
    IF i > Len(fields)
    THEN <<[opener |-> IF Len(fields) > 0 THEN "} else {" ELSE "{",
            key |-> NULL, body |-> <<[op |-> "skip"]>>]>>
    ELSE (IF fields[i].is_counter_field THEN <<>>
          ELSE <<[opener |-> IF i > 1 THEN "} else if" ELSE "if",
                  key |-> js_getalias(fields[i]),
                  body |-> gen_parse_field_body(fields[i])]>>)
         \o DispatchFrom(fields, i + 1)

RECURSIVE StringifyFrom(_, _)
(* The stringifier's statements if the fields were visited last to first. *)
StringifyBackwards(fields, i) ==
    IF i > Len(fields) THEN <<>>
    ELSE StringifyFrom(fields, i + 1) \o gen_stringify_field(fields[i])

StringifyFrom(fields, i) ==
    IF i > Len(fields) THEN <<>>
    ELSE gen_stringify_field(fields[i]) \o StringifyFrom(fields, i + 1)

(* generate_model_code: the functions emitted for one Model, by name, and  *)
(* the two record bodies.                                                  *)
generate_model_code(model) ==
    [model     |-> model,
     functions |->
        (IF model.parse
         THEN <<"_parse_", "parse_", "_parse__list", "parse__list">> ELSE <<>>) \o
        (IF model.stringify
         THEN <<"_stringify_", "stringify__indent", "stringify__list_indent">> ELSE <<>>),
     dispatch  |-> IF model.parse THEN DispatchFrom(model.fields, 1) ELSE <<>>,
     stringify |-> IF model.stringify THEN StringifyFrom(model.fields, 1) ELSE <<>>]

(* generate_all_code: da_foreach(models, model) generate_model_code. *)
generate_all_code(ms) == [i \in 1..Len(ms) |-> generate_model_code(ms[i])]

(***************************************************************************)
(* The values the generated code works on.  A record instance is a         *)
(* function from member names to values:                                   *)
(*   [t |-> "int", v |-> n]  [t |-> "bool", v |-> b]  integer and boolean  *)
(*   [t |-> "str", v |-> chars]     a pointer to a NUL-terminated string   *)
(*   [t |-> "null"]                 a null pointer                         *)
(*   [t |-> "arr", at |-> address, v |-> elements]   an array in memory    *)
(*   [t |-> "ptr", v |-> instance]  a pointer to one record                *)
(*   [t |-> "rec", v |-> instance]  a record held in place                 *)
(***************************************************************************)
IntV(n)  == [t |-> "int", v |-> n]
BoolV(b) == [t |-> "bool", v |-> b]
StrV(cs) == [t |-> "str", v |-> cs]
NullV    == [t |-> "null"]
ArrV(at, es) == [t |-> "arr", at |-> at, v |-> es]
PtrV(x)  == [t |-> "ptr", v |-> x]
RecV(x)  == [t |-> "rec", v |-> x]

(* An identifier spliced into the emitted text, as the characters of a     *)
(* C string: an identifier is kept whole.                                  *)
Chars(id) == <<id>>

(* The nested record type the checked declarations refer to, and the code  *)
(* generated for it: `JSON typedef struct { int n; } Foo;`.                *)
FooModel ==
    [Model0 EXCEPT !.name = <<"Foo">>, !.simple_name = "Foo",
                   !.stringify = TRUE, !.parse = TRUE,
                   !.fields = <<[Field0 EXCEPT !.name = "n", !.type = <<"int">>,
                                               !.simple_type = "int"]>>]

(* A value handed to a parameter of type int: an integer as it is, a       *)
(* pointer as its address.                                                 *)
AsInt(x) ==
    IF x.t = "int" THEN x.v
    ELSE IF x.t = "bool" THEN (IF x.v THEN 1 ELSE 0)
    ELSE IF x.t = "arr" THEN x.at
    ELSE 0

(* if (jsb_<fn>(jsb, x)) return -1; for the typed value writers. *)
JsbTyped(fn, j, x) ==
    IF fn = "int" THEN jsb_int(j, AsInt(x))
    ELSE IF fn = "bool" THEN jsb_bool(j, AsInt(x) # 0)
    ELSE IF fn = "string"
         THEN (IF x.t = "str" THEN jsb_nstring(j, x.v, Len(x.v)) ELSE jsb_nstring(j, NULL, 0))
    ELSE jsb_number(j, AsInt(x), 5)

RECURSIVE ExecS(_, _, _)
RECURSIVE ExecAllS(_, _, _, _)
RECURSIVE ExecFor(_, _, _, _, _)
RECURSIVE Stringify(_, _, _)

(* for (size_t i = 0; i < (size_t)in->counter; ++i) { body }, from index i. *)
ExecFor(body, r, in, i, n) ==
    IF r.rc # 0 \/ i > n THEN r
    ELSE LET x == in[body.f].v[i]
             r1 == IF body.op = "elem_val" THEN JsbTyped(body.fn, r.j, x)
                   ELSE Stringify(generate_model_code(FooModel), r.j, x)
         IN  ExecFor(body, r1, in, i + 1, n)

(* One statement of a stringifier run on the instance in.  r.rc = 0 while  *)
(* the function has not returned -1.                                       *)
ExecS(stmt, r, in) ==
    IF r.rc # 0 THEN r
    ELSE IF stmt.op = "key" THEN jsb_key(r.j, Chars(stmt.k))
    ELSE IF stmt.op = "val" THEN JsbTyped(stmt.fn, r.j, in[stmt.f])
    ELSE IF stmt.op = "literal" THEN
        LET plen == IF in[stmt.f].t = "str" THEN Len(in[stmt.f].v) ELSE 0
        IN  IF plen > 0
            THEN Ok([jsb_sappends(r.j, in[stmt.f].v) EXCEPT !.is_first = FALSE, !.is_key = FALSE])
            ELSE Ok(jsb_null(r.j).j)
    ELSE IF stmt.op = "begin_array" THEN jsb_begin_array(r.j)
    ELSE IF stmt.op = "end_array" THEN jsb_end_array(r.j)
    ELSE IF stmt.op = "for" THEN ExecFor(stmt.body, r, in, 1, AsInt(in[stmt.counter]))
    ELSE IF stmt.op = "ptr_nested" THEN
        IF in[stmt.f] = NullV THEN Ok(jsb_null(r.j).j)
        ELSE Stringify(generate_model_code(FooModel), r.j, in[stmt.f].v)
    ELSE IF stmt.op = "nested" THEN
        Stringify(generate_model_code(FooModel), r.j, in[stmt.f].v)
    ELSE IF stmt.op = "if_not_null" THEN
        IF in[stmt.f] # NullV THEN ExecAllS(stmt.body, 1, r, in) ELSE r
    ELSE r

ExecAllS(stmts, i, r, in) ==
    IF i > Len(stmts) THEN r ELSE ExecAllS(stmts, i + 1, ExecS(stmts[i], r, in), in)

(* int _stringify_T(Jsb *jsb, T *in) as generate_model_code emits it. *)
Stringify(code, j, in) ==
    LET r0 == jsb_begin_object(j)
        r1 == ExecAllS(code.stringify, 1, r0, in)
    IN  IF r0.rc # 0 THEN Fail(r0.j)
        ELSE IF r1.rc # 0 THEN Fail(r1.j)
        ELSE jsb_end_object(r1.j)

(* char *stringify_T_indent(T *in, int indent): the text, or NULL. *)
stringify_indent(code, in, indent) ==
    LET r == Stringify(code, JsbZero(indent), in)
    IN  IF r.rc # 0 THEN NULL ELSE r.j.buffer

(***************************************************************************)
(* The JSON parsing collaborator the generated parsers call (jsp.h, which  *)
(* is not among the sources: it is written from the interface the spec's   *)
(* section 6 lists and from the members the emitted statements read).      *)
(* buffer is the text, off the 0-based offset of the next character; type, *)
(* string, number and boolean are what the last key or value read left.    *)
(***************************************************************************)
JspInit(text) ==
    [buffer |-> text, off |-> 0, type |-> "NONE", string |-> NULL,
     number |-> 0, boolean |-> FALSE]

JspAt(buf, off) == IF off < Len(buf) THEN buf[off + 1] ELSE "<END>"

(* The first offset from off on whose character is not in S. *)
JspSkipRun(buf, off, S) ==
    IF off >= Len(buf) THEN off
    ELSE CHOOSE k \in off..Len(buf) :
            /\ JspAt(buf, k) \notin S
            /\ \A j \in off..(k - 1) : JspAt(buf, j) \in S

JspOk(J)  == [j |-> J, rc |-> 0]
JspErr(J) == [j |-> J, rc |-> 1]

(* White space and the separators between members and elements. *)
JspSkipSep(buf, off) == JspSkipRun(buf, off, {" ", LF, TAB, CR, ",", ":"})

(* The characters of a string literal from off, just after its opening     *)
(* quote: [s |-> the unescaped characters, off |-> just after the closing  *)
(* quote], off = -1 if the text ends first.                                *)
RECURSIVE JspReadString(_, _, _)
JspReadString(buf, off, acc) ==
    LET c == JspAt(buf, off) IN
    IF c = "<END>" THEN [s |-> acc, off |-> 0 - 1]
    ELSE IF c = "\"" THEN [s |-> acc, off |-> off + 1]
    ELSE IF c = "\\" THEN
        LET e == JspAt(buf, off + 1)
            u == IF e = "n" THEN LF ELSE IF e = "t" THEN TAB ELSE e
        IN  JspReadString(buf, off + 2, Append(acc, u))
    ELSE JspReadString(buf, off + 1, Append(acc, c))

DigitValue(c) == CHOOSE d \in 0..9 : Digit(d) = c

IsDigit(c) == \E d \in 0..9 : Digit(d) = c

RECURSIVE JspReadDigits(_, _, _)
JspReadDigits(buf, off, acc) ==
    IF IsDigit(JspAt(buf, off))
    THEN JspReadDigits(buf, off + 1, acc * 10 + DigitValue(JspAt(buf, off)))
    ELSE [n |-> acc, off |-> off]

JspStartsWith(buf, off, word) ==
    /\ off + Len(word) <= Len(buf)
    /\ SubSeq(buf, off + 1, off + Len(word)) = word

(* "read generic value": a scalar is read whole; of an object or an array  *)
(* the opening character is read and type says which it was.               *)
jsp_value(J) ==
    LET off == JspSkipSep(J.buffer, J.off)
        c   == JspAt(J.buffer, off)
        str == JspReadString(J.buffer, off + 1, <<>>)
        neg == JspReadDigits(J.buffer, off + 1, 0)
        num == JspReadDigits(J.buffer, off, 0)
    IN  IF c = "\"" THEN
            IF str.off < 0 THEN JspErr(J)
            ELSE JspOk([J EXCEPT !.off = str.off, !.type = "STRING", !.string = str.s])
        ELSE IF c = "{" THEN JspOk([J EXCEPT !.off = off + 1, !.type = "OBJECT", !.string = NULL])
        ELSE IF c = "[" THEN JspOk([J EXCEPT !.off = off + 1, !.type = "ARRAY", !.string = NULL])
        ELSE IF c = "-" /\ neg.off > off + 1 THEN
            JspOk([J EXCEPT !.off = neg.off, !.type = "NUMBER", !.number = 0 - neg.n,
                            !.string = NULL])
        ELSE IF IsDigit(c) THEN
            JspOk([J EXCEPT !.off = num.off, !.type = "NUMBER", !.number = num.n,
                            !.string = NULL])
        ELSE IF JspStartsWith(J.buffer, off, <<"t", "r", "u", "e">>) THEN
            JspOk([J EXCEPT !.off = off + 4, !.type = "BOOLEAN", !.boolean = TRUE,
                            !.string = NULL])
        ELSE IF JspStartsWith(J.buffer, off, <<"f", "a", "l", "s", "e">>) THEN
            JspOk([J EXCEPT !.off = off + 5, !.type = "BOOLEAN", !.boolean = FALSE,
                            !.string = NULL])
        ELSE IF JspStartsWith(J.buffer, off, <<"n", "u", "l", "l">>) THEN
            JspOk([J EXCEPT !.off = off + 4, !.type = "NULL", !.string = NULL])
        ELSE JspErr(J)

(* From off inside a container opened depth times: the offset just after   *)
(* the character that closes the outermost of them, -1 if the text ends    *)
(* first; commas counts the separators met at depth 1.                     *)
RECURSIVE JspScan(_, _, _, _)
JspScan(buf, off, depth, commas) ==
    LET at  == JspSkipRun(buf, off, {" ", LF, TAB, CR, ":"})
        c   == JspAt(buf, at)
        str == JspReadString(buf, at + 1, <<>>)
    IN  IF depth = 0 THEN [off |-> off, commas |-> commas]
        ELSE IF c = "<END>" \/ (c = "\"" /\ str.off < 0) THEN [off |-> 0 - 1, commas |-> commas]
        ELSE JspScan(buf,
                     IF c = "\"" THEN str.off ELSE at + 1,
                     IF c \in {"{", "["} THEN depth + 1
                     ELSE IF c \in {"}", "]"} THEN depth - 1 ELSE depth,
                     IF c = "," /\ depth = 1 THEN commas + 1 ELSE commas)

(* "skip current value". *)
jsp_skip(J) ==
    LET r   == jsp_value(J)
        end == JspScan(J.buffer, r.j.off, 1, 0)
    IN  IF r.rc # 0 THEN r
        ELSE IF r.j.type \notin {"OBJECT", "ARRAY"} THEN r
        ELSE IF end.off < 0 THEN JspErr(J)
        ELSE JspOk([r.j EXCEPT !.off = end.off])

JspExpect(J, c) ==
    LET off == JspSkipSep(J.buffer, J.off)
    IN  IF JspAt(J.buffer, off) = c THEN JspOk([J EXCEPT !.off = off + 1]) ELSE JspErr(J)

jsp_begin_object(J) == JspExpect(J, "{")
jsp_end_object(J)   == JspExpect(J, "}")
jsp_begin_array(J)  == JspExpect(J, "[")
jsp_end_array(J)    == JspExpect(J, "]")

(* "read next object key": the key is left in string; a non-zero result    *)
(* when the object has no further member.                                  *)
jsp_key(J) ==
    LET off == JspSkipSep(J.buffer, J.off)
        str == JspReadString(J.buffer, off + 1, <<>>)
    IN  IF JspAt(J.buffer, off) = "\"" /\ str.off >= 0
        THEN JspOk([J EXCEPT !.off = str.off, !.type = "STRING", !.string = str.s])
        ELSE JspErr(J)

(* "array element count" of the array whose opening bracket was just read, *)
(* without consuming anything.                                             *)
jsp_array_length(J) ==
    LET end == JspScan(J.buffer, J.off, 1, 0)
    IN  IF end.off < 0 THEN 0
        ELSE IF JspAt(J.buffer, JspSkipSep(J.buffer, J.off)) = "]" THEN 0
        ELSE end.commas + 1

(***************************************************************************)
(* A run of a generated parser.  r.j is the parsing collaborator, r.out    *)
(* the record instance being filled in, r.skipped the keys that went to    *)
(* the skip-value branch, r.rc what the function has returned so far (0    *)
(* while it is running).                                                   *)
(***************************************************************************)

(* Memory the generated code did not write: what malloc returns, what a    *)
(* caller's record holds before the parser stores into it.                 *)
JunkV == [t |-> "junk"]

(* The address jsgen_malloc returns; allocation is taken to succeed. *)
HeapAddr == 4096

(* A collaborator call that returned rc: failed says that some call of the *)
(* run has returned an error, late that a call was made after that.        *)
Called(r, rc) == [r EXCEPT !.late = @ \/ r.failed, !.failed = @ \/ rc # 0]

(* The same for the calls a nested _parse_T has made. *)
Joined(r, sub) == [r EXCEPT !.late = @ \/ r.failed \/ sub.late, !.failed = @ \/ sub.failed]

WithJ(r, res) == [Called(r, res.rc) EXCEPT !.j = res.j, !.rc = res.rc]

RECURSIVE ExecP(_, _)
RECURSIVE ExecAllP(_, _, _)
RECURSIVE ParseElems(_, _, _, _)
RECURSIVE ParseKeys(_, _)
RECURSIVE Parse(_, _, _)

(* The scalar the last jsp_value left, as `jsp-><from>` reads it. *)
JspScalar(J, from) == IF from = "boolean" THEN BoolV(J.boolean) ELSE IntV(J.number)

(* The literal-span loop emitted for a json_literal field: from the        *)
(* character after the opening one to the one that balances it.            *)
CaptureStep(c, brace_count, ob, cb) ==
    IF c = "\\" THEN [by |-> 2, n |-> brace_count]
    ELSE IF c = ob THEN [by |-> 1, n |-> brace_count + 1]
    ELSE IF c = cb THEN [by |-> 1, n |-> brace_count - 1]
    ELSE [by |-> 1, n |-> brace_count]

RECURSIVE CaptureEnd(_, _, _, _, _)
CaptureNext(buf, off, step, ob, cb) == CaptureEnd(buf, off + step.by, step.n, ob, cb)

CaptureEnd(buf, off, brace_count, ob, cb) ==
    IF ~(off < Len(buf) /\ brace_count > 0) THEN off
    ELSE CaptureNext(buf, off, CaptureStep(JspAt(buf, off), brace_count, ob, cb), ob, cb)

(* _parse_Foo(jsp, &x, a) for the nested record type, x not yet written. *)
ParseFoo(J) == Parse(generate_model_code(FooModel), J, [n \in {"n"} |-> JunkV])

(* (out->f)[i - 1] = x, in the block jsgen_malloc returned. *)
PutElem(out, f, i, x) ==
    [out EXCEPT ![f] =
        ArrV(HeapAddr, IF @.t = "arr" /\ i <= Len(@.v)
                       THEN [@.v EXCEPT ![i] = x]
                       ELSE Append(IF @.t = "arr" THEN @.v ELSE <<>>, x))]

(* The element loop of an array branch, at index i; len < 0 is the loop    *)
(* without a counter, which goes on until the cursor is at `]`.  A failed  *)
(* element breaks out of the loop; the err it leaves is overwritten by the *)
(* jsp_end_array that follows.                                             *)
ElemValue(body, r, i, len, rv) ==
    IF rv.rc # 0 THEN Called(r, rv.rc)
    ELSE ParseElems(body,
                    [Called(r, rv.rc) EXCEPT !.j = rv.j,
                              !.out = PutElem(r.out, body.f, i, JspScalar(rv.j, body.from))],
                    i + 1, len)

ElemNested(body, r, i, len, sub) ==
    IF sub.rc # 0 THEN [Joined(r, sub) EXCEPT !.j = sub.j]
    ELSE ParseElems(body,
                    [Joined(r, sub) EXCEPT !.j = sub.j,
                                           !.out = PutElem(r.out, body.f, i, sub.out)],
                    i + 1, len)

ParseElems(body, r, i, len) ==
    IF ~(IF len >= 0 THEN i <= len
         ELSE r.j.off < Len(r.j.buffer) /\ JspAt(r.j.buffer, r.j.off) # "]")
    THEN r
    ELSE IF body.op = "elem_value" THEN ElemValue(body, r, i, len, jsp_value(r.j))
    ELSE ElemNested(body, r, i, len, ParseFoo(r.j))

(* The span a json_literal field captures, ending at offset end. *)
Capture(stmt, r, end) ==
    [r EXCEPT !.j.off = end, !.out[stmt.f] = StrV(SubSeq(r.j.buffer, r.j.off, end))]

(* The string branch of a pointer field, s_len being strlen(jsp->string). *)
StrPtr(stmt, r, s_len) ==
    [r EXCEPT !.out =
        [(IF stmt.counter # NULL THEN [r.out EXCEPT ![stmt.counter] = IntV(s_len)] ELSE r.out)
            EXCEPT ![stmt.f] = IF s_len > 0 THEN StrV(r.j.string) ELSE NullV]]

(* The counted loop, len being what jsp_array_length returned. *)
ForLen(stmt, r, len) ==
    ParseElems(stmt.body,
               [r EXCEPT !.out = [[r.out EXCEPT ![stmt.counter] = IntV(len)]
                                  EXCEPT ![stmt.f] = ArrV(HeapAddr, [i \in 1..len |-> JunkV])]],
               1, len)

(* A pointer to a nested record: null stays null, anything else is parsed  *)
(* into a fresh record.                                                    *)
PtrNestedInto(stmt, r, sub) ==
    [Joined(r, sub) EXCEPT !.j = sub.j, !.rc = sub.rc, !.out[stmt.f] = PtrV(sub.out)]

PtrNested(stmt, r, rv) ==
    IF rv.rc = 0 /\ rv.j.type = "NULL"
    THEN [Called(r, rv.rc) EXCEPT !.j = rv.j, !.out[stmt.f] = NullV]
    ELSE PtrNestedInto(stmt, Called(r, rv.rc), ParseFoo(rv.j))

Nested(stmt, r, sub) ==
    [Joined(r, sub) EXCEPT !.j = sub.j, !.rc = sub.rc, !.out[stmt.f] = RecV(sub.out)]

(* One statement of a dispatch branch. *)
ExecP(stmt, r) ==
    IF r.rc # 0 THEN r
    ELSE IF stmt.op = "value" THEN WithJ(r, jsp_value(r.j))
    ELSE IF stmt.op = "skip" THEN
        [WithJ(r, jsp_skip(r.j)) EXCEPT !.skipped = Append(r.skipped, r.j.string)]
    ELSE IF stmt.op = "assign" THEN
        [r EXCEPT !.out[stmt.f] = JspScalar(r.j, stmt.from)]
    ELSE IF stmt.op = "capture" THEN
        Capture(stmt, r, CaptureEnd(r.j.buffer, r.j.off, 1,
                                    IF r.j.type = "OBJECT" THEN "{" ELSE "[",
                                    IF r.j.type = "OBJECT" THEN "}" ELSE "]"))
    ELSE IF stmt.op = "strptr" THEN
        StrPtr(stmt, r, IF r.j.string # NULL THEN Len(r.j.string) ELSE 0)
    ELSE IF stmt.op = "strncpy" THEN
        IF r.j.string # NULL THEN [r EXCEPT !.out[stmt.f] = StrV(r.j.string)] ELSE r
    ELSE IF stmt.op = "begin_array" THEN WithJ(r, jsp_begin_array(r.j))
    ELSE IF stmt.op = "end_array" THEN WithJ(r, jsp_end_array(r.j))
    ELSE IF stmt.op = "for_len" THEN ForLen(stmt, r, jsp_array_length(r.j))
    ELSE IF stmt.op = "while_more" THEN ParseElems(stmt.body, r, 1, 0 - 1)
    ELSE IF stmt.op = "ptr_nested" THEN PtrNested(stmt, r, jsp_value(r.j))
    ELSE IF stmt.op = "nested" THEN Nested(stmt, r, ParseFoo(r.j))
    ELSE r

ExecAllP(stmts, i, r) ==
    IF i > Len(stmts) THEN r ELSE ExecAllP(stmts, i + 1, ExecP(stmts[i], r))

(* The branch of the dispatch chain a key takes: the first whose strcmp    *)
(* succeeds, else the skip-value branch that ends the chain.               *)
RECURSIVE Branch(_, _, _)
Branch(dispatch, key, i) ==
    IF i = Len(dispatch) \/ Chars(dispatch[i].key) = key THEN dispatch[i]
    ELSE Branch(dispatch, key, i + 1)

(* while (jsp_key(jsp) == 0) { the dispatch chain } *)
ParseNext(code, r1) == IF r1.rc # 0 THEN r1 ELSE ParseKeys(code, r1)

ParseKey(code, r, k) ==
    IF k.rc # 0 THEN [r EXCEPT !.late = @ \/ r.failed]
    ELSE ParseNext(code, ExecAllP(Branch(code.dispatch, k.j.string, 1).body, 1,
                                  [r EXCEPT !.j = k.j, !.late = @ \/ r.failed]))

ParseKeys(code, r) == ParseKey(code, r, jsp_key(r.j))

(* int _parse_T(Jsp *jsp, T *out, JsGenAllocator *a) as generate_model_code *)
(* emits it: out is the caller's record as it was handed in.                *)
ParseEnd(r1) == IF r1.rc # 0 THEN r1 ELSE WithJ(r1, jsp_end_object(r1.j))

ParseBody(code, r0) == IF r0.rc # 0 THEN r0 ELSE ParseEnd(ParseKeys(code, r0))

Parse(code, J, out) ==
    ParseBody(code, WithJ([j |-> J, out |-> out, skipped |-> <<>>, rc |-> 0,
                           failed |-> FALSE, late |-> FALSE],
                          jsp_begin_object(J)))

(* int parse_T(const char *json, T *out, JsGenAllocator *a). *)
parse_(code, json, out) == Parse(code, JspInit(json), out)

(***************************************************************************)
(* parse_file: one action per iteration of its token loop, by the token    *)
(* the loop reads.  Whatever a handler reads beyond that token is read in  *)
(* the same step.                                                          *)
(***************************************************************************)
Lexer0 == [ahead |-> <<>>, ended |-> FALSE]

Scanning == [lex |-> [ahead |-> lex.ahead, ended |-> lex.ended, token |-> NoTok,
                      string |-> "", since |-> <<>>],
             p |-> p, m |-> m, models |-> models, st |-> "run"]

RECURSIVE FieldCount(_)
FieldCount(ms) == IF ms = <<>> THEN 0 ELSE Len(Head(ms).fields) + FieldCount(Tail(ms))

Bounded(S) ==
    /\ Len(S.m.fields) + FieldCount(S.models) <= MaxFields
    /\ Len(S.models) <= MaxModels
    /\ S.p.level <= MaxLevel
    /\ S.p.level + 1 >= 0

(* The keywords jsgen.h documents as enabling generation. *)
EnablingKeywords == {"JSON", "JSGEN_JSON", "JSONS", "JSGEN_JSONS", "JSONP", "JSGEN_JSONP"}

(* What is recorded of the token an iteration handled: an enabling         *)
(* keyword, a statement terminator, the end of the file, a token the lexer *)
(* could not read (CLEX_parse_error), jsgen_ignore when                    *)
(* it is read as the annotation of a field the working Model holds, and    *)
(* any other keyword that parse_field_annotation handles; of any other     *)
(* token only that there was one.                                          *)
Noted(t) ==
    IF t.k = "id" /\ t.s \in EnablingKeywords THEN t
    ELSE IF t = Ch(";") \/ t.k \in {"eof", "err"} THEN t
    ELSE IF t = Id("jsgen_ignore") /\ p.can_generate /\ p.is_field /\ m.fields # <<>> THEN t
    ELSE IF /\ t.k = "id" /\ p.can_generate /\ p.is_field
            /\ (IsAliasKw(t.s) \/ IsSizedByKw(t.s) \/ IsLiteralKw(t.s)) THEN t
    ELSE [k |-> "other", s |-> ""]

Commit(S, tok) ==
    /\ Bounded(S)
    /\ lex' = [ahead |-> S.lex.ahead, ended |-> S.lex.ended]
    /\ p' = S.p
    /\ m' = S.m
    /\ models' = S.models
    /\ status' = IF S.st = "run" THEN "scan" ELSE S.st
    /\ last' = Noted(tok)
    /\ UNCHANGED <<vocab, emitted, run, drv, builder, hm, resolver, arena>>

NextTokens == { SetLex(Scanning, L1) : L1 \in GetToken(Scanning.lex, Vocabs[vocab]) }

(* stb_c_lexer_get_token returns 0: the loop ends and parse_file returns 0. *)
ScanEnd ==
    /\ status = "scan"
    /\ \E S \in NextTokens :
        /\ S.lex.token.k = "eof"
        /\ lex' = [ahead |-> <<>>, ended |-> TRUE]
        /\ status' = "ok"
        /\ last' = S.lex.token
        /\ UNCHANGED <<vocab, p, m, models, emitted, run, drv, builder, hm, resolver, arena>>

(* if (!p.can_generate && lex.token != CLEX_id) continue; *)
ScanSkip ==
    /\ status = "scan"
    /\ \E S \in NextTokens :
        /\ S.lex.token.k \notin {"eof", "id"}
        /\ ~S.p.can_generate
        /\ Commit(S, S.lex.token)

ScanId ==
    /\ status = "scan"
    /\ \E S \in NextTokens :
        /\ S.lex.token.k = "id"
        /\ \E S2 \in handle_id(S, Vocabs[vocab]) : Commit(S2, S.lex.token)

ScanOpen ==
    /\ status = "scan"
    /\ \E S \in NextTokens :
        /\ S.lex.token = Ch("{")
        /\ S.p.can_generate
        /\ Commit([S EXCEPT !.p.level = S.p.level + 1], S.lex.token)

ScanClose ==
    /\ status = "scan"
    /\ \E S \in NextTokens :
        /\ S.lex.token = Ch("}")
        /\ S.p.can_generate
        /\ Commit([S EXCEPT !.p.level = S.p.level - 1], S.lex.token)

ScanSemicolon ==
    /\ status = "scan"
    /\ \E S \in NextTokens :
        /\ S.lex.token = Ch(";")
        /\ S.p.can_generate
        /\ Commit(handle_semicolon(S), S.lex.token)

(* case CLEX_parse_error: return -1; *)
ScanError ==
    /\ status = "scan"
    /\ \E S \in NextTokens :
        /\ S.lex.token.k = "err"
        /\ S.p.can_generate
        /\ Commit([S EXCEPT !.st = "fail"], S.lex.token)

(* default: break; *)
ScanOther ==
    /\ status = "scan"
    /\ \E S \in NextTokens :
        /\ S.lex.token.k \notin {"eof", "id", "err"}
        /\ S.lex.token \notin {Ch("{"), Ch("}"), Ch(";")}
        /\ S.p.can_generate
        /\ Commit(S, S.lex.token)

(***************************************************************************)
(* main, after parse_file has returned 0: generate_all_code(models).       *)
(* parse_file's lexer, Parser and working Model no longer exist.           *)
(***************************************************************************)
Generate ==
    /\ status = "ok"
    /\ status' = "generated"
    /\ emitted' = generate_all_code(models)
    /\ lex' = Lexer0
    /\ p' = Parser0
    /\ m' = Model0
    /\ last' = NoTok
    /\ UNCHANGED <<vocab, models, run, drv, builder, hm, resolver, arena>>

(***************************************************************************)
(* The program that includes the generated file and calls its functions.   *)
(***************************************************************************)
NoRun == [kind |-> "none", i |-> 0, in |-> <<>>, indent |-> 0, text |-> NULL, res |-> <<>>]

Foo1 == [n \in {"n"} |-> IntV(1)]
Foo2 == [n \in {"n"} |-> IntV(0 - 12)]

(* The values a member declared as the field was can hold. *)
ValuesOf(field) ==
    LET elems == IF field.simple_type = "int" THEN <<IntV(1), IntV(2)>>
                 ELSE IF field.simple_type = "Foo" THEN <<Foo1, Foo2>>
                 ELSE <<>>
    IN  IF field.is_array \/ field.has_counter \/ field.type = <<"int", "*">> THEN
            IF elems = <<>> THEN {}
            ELSE { ArrV(HeapAddr, SubSeq(elems, 1, k)) : k \in 1..2 } \cup
                 (IF field.type = <<field.simple_type>> THEN {} ELSE {NullV})
        ELSE IF field.type = <<"char", "*">> THEN
            IF field.is_json_literal
            THEN {NullV, StrV(<<>>), StrV(<<"{", "\"", "q", "\"", ":", "[", "1", "]", "}">>)}
            ELSE {NullV, StrV(<<>>), StrV(<<"h", "\"", "i">>), StrV(<<"\\", CR, LF>>)}
        ELSE IF field.type = <<"int">> THEN {IntV(0), IntV(1), IntV(2), IntV(0 - 12)}
        ELSE IF field.simple_type = "Foo" THEN
            IF field.is_pointer THEN {NullV, PtrV(Foo1)} ELSE {RecV(Foo2)}
        ELSE {}

Member(model, name) == { i \in 1..Len(model.fields) : model.fields[i].name = name }

(* The generated file compiles with the declaration it was generated from: *)
(* the record is named, its members are distinct and of known types, every *)
(* counter is an integer member, no scalar is assigned to a pointer, and   *)
(* the dispatch chain opens with `if`.                                     *)
Builds(c) ==
    LET fs == c.model.fields IN
    /\ c.model.simple_name # ""
    /\ \A i \in 1..Len(fs) :
        /\ Member(c.model, fs[i].name) = {i}
        /\ ValuesOf(fs[i]) # {}
        /\ fs[i].has_counter =>
              \E g \in Member(c.model, fs[i].counter_field) :
                  g # i /\ fs[g].type = <<"int">> /\ ~fs[g].is_pointer
        /\ (c.model.parse /\ ~fs[i].is_counter_field /\ fs[i].is_pointer)
              => get_jsp_type(fs[i].type) \notin {"number", "boolean"}
    /\ c.dispatch # <<>> => c.dispatch[1].opener \in {"if", "{"}

(* The instances of the record a caller can hand to the stringifier: every *)
(* member holds a value of its type, and a counter holds the length of the *)
(* array it counts.                                                        *)
Instances(model) ==
    LET fs    == model.fields
        names == { fs[i].name : i \in 1..Len(fs) }
        all   == UNION { ValuesOf(fs[i]) : i \in 1..Len(fs) }
        len(x) == IF x.t = "arr" THEN Len(x.v) ELSE 0
    IN  { x \in [names -> all] :
            /\ \A i \in 1..Len(fs) : x[fs[i].name] \in ValuesOf(fs[i])
            /\ \A i \in 1..Len(fs) :
                  fs[i].has_counter => x[fs[i].counter_field].v = len(x[fs[i].name]) }

(* The JSON values of the texts handed to the parser. *)
JsonValues ==
    { <<"2">>, <<"\"", "h", "i", "\"">>, <<"\"", "\"">>, <<"n", "u", "l", "l">>,
      <<"[", "{", "\"", "n", "\"", ":", "1", "}", ",", "{", "\"", "n", "\"", ":", "2", "}", "]">>,
      <<"{", "\"", "n", "\"", ":", "1", "}">> }

(* A value that is no JSON: an array whose element lacks its closing brace. *)
BrokenValues == { <<"[", "{", "\"", "n", "\"", ":", "1", "]">> }

(* The texts handed to the parser: an object with no member or with one,   *)
(* under a key of the record or a foreign one.                             *)
Docs(model) ==
    LET fs   == model.fields
        keys == { fs[i].name : i \in 1..Len(fs) } \cup
                { js_getalias(fs[i]) : i \in 1..Len(fs) } \cup {"z"}
    IN  { <<"{", "}">> } \cup
        { <<"{", "\"", k, "\"", ":">> \o v \o <<"}">> :
            k \in keys, v \in JsonValues \cup BrokenValues }

(* The caller's record before a parser has stored anything into it. *)
Blank(model) ==
    [n \in { model.fields[i].name : i \in 1..Len(model.fields) } |-> JunkV]

(* The JSON texts handed to the list parser: an array of no, one or two    *)
(* of the record's documents, one whose closing bracket is missing, one    *)
(* whose element is no object, and a text that is no array.                *)
ListDocs(model) ==
    { <<"[", "]">>, <<"{", "}">>, <<"[", "1", "]">> } \cup
    { <<"[">> \o d \o <<"]">> : d \in Docs(model) } \cup
    { <<"[">> \o d \o <<"}">> : d \in Docs(model) } \cup
    { <<"[", "{", "}", ",">> \o d \o <<"]">> : d \in Docs(model) }

(* int _parse_T_list(Jsp *jsp, T **out, size_t *out_count,                 *)
(* JsGenAllocator *a) as generate_model_code emits it.  r.out and          *)
(* r.out_count are *out and *out_count, handed in as the caller left them. *)
RECURSIVE ParseListElems(_, _, _, _)

(* err = jsp_end_array(jsp); if (err) { *out = NULL; *out_count = 0; }     *)
ParseListEnd(r, e) ==
    IF e.rc # 0
    THEN [Called(r, e.rc) EXCEPT !.j = e.j, !.rc = e.rc, !.out = NullV, !.out_count = 0]
    ELSE [Called(r, e.rc) EXCEPT !.j = e.j]

(* err = _parse_T(jsp, element i of *out, a); if (err) return err; *)
ParseListElem(code, r, i, len, sub) ==
    IF sub.rc # 0
    THEN [Joined(r, sub) EXCEPT !.j = sub.j, !.rc = sub.rc, !.out.v[i] = sub.out]
    ELSE ParseListElems(code, [Joined(r, sub) EXCEPT !.j = sub.j, !.out.v[i] = sub.out],
                        i + 1, len)

ParseListElems(code, r, i, len) ==
    IF i > len THEN ParseListEnd(r, jsp_end_array(r.j))
    ELSE ParseListElem(code, r, i, len, Parse(code, r.j, Blank(code.model)))

ParseListBody(code, b, len, out, out_count) ==
    IF b.rc # 0
    THEN [j |-> b.j, rc |-> b.rc, out |-> out, out_count |-> out_count,
          failed |-> TRUE, late |-> FALSE]
    ELSE ParseListElems(code,
                        [j |-> b.j, rc |-> 0, out_count |-> len,
                         out |-> ArrV(HeapAddr, [i \in 1..len |-> JunkV]),
                         failed |-> FALSE, late |-> FALSE],
                        1, len)

ParseList(code, b, out, out_count) ==
    ParseListBody(code, b, jsp_array_length(b.j), out, out_count)

parse_list_(code, J, out, out_count) == ParseList(code, jsp_begin_array(J), out, out_count)

(* int parse_T_list(const char *json, T **out, size_t *out_count,          *)
(* JsGenAllocator *a).                                                     *)
parse_list(code, json, out, out_count) == parse_list_(code, JspInit(json), out, out_count)

(* stringify_T_indent(&in, indent). *)
RunStringify ==
    /\ status = "generated"
    /\ \E i \in 1..Len(emitted), indent \in {0, 2} :
        /\ emitted[i].model.stringify
        /\ Builds(emitted[i])
        /\ \E in \in Instances(emitted[i].model) :
            run' = [kind |-> "stringify", i |-> i, in |-> in, indent |-> indent,
                    text |-> stringify_indent(emitted[i], in, indent), res |-> <<>>]
    /\ UNCHANGED <<vocab, lex, p, m, models, status, last, emitted, drv, builder, hm, resolver, arena>>

(* parse_T(json, &out, a). *)
RunParse ==
    /\ status = "generated"
    /\ \E i \in 1..Len(emitted) :
        /\ emitted[i].model.parse
        /\ Builds(emitted[i])
        /\ \E json \in Docs(emitted[i].model) :
            run' = [kind |-> "parse", i |-> i, in |-> <<>>, indent |-> 0, text |-> json,
                    res |-> parse_(emitted[i], json, Blank(emitted[i].model))]
    /\ UNCHANGED <<vocab, lex, p, m, models, status, last, emitted, drv, builder, hm, resolver, arena>>

(* parse_T(text, &out, a) on the text stringify_T has just returned. *)
RunParseBack ==
    /\ status = "generated"
    /\ run.kind = "stringify"
    /\ run.text # NULL
    /\ emitted[run.i].model.parse
    /\ run' = [run EXCEPT !.kind = "roundtrip",
                          !.res = parse_(emitted[run.i], run.text, Blank(emitted[run.i].model))]
    /\ UNCHANGED <<vocab, lex, p, m, models, status, last, emitted, drv, builder, hm, resolver, arena>>

(* parse_T_list(json, &out, &out_count, a), out and out_count not yet      *)
(* written by the caller.                                                  *)
RunParseList ==
    /\ status = "generated"
    /\ \E i \in 1..Len(emitted) :
        /\ emitted[i].model.parse
        /\ Builds(emitted[i])
        /\ \E json \in ListDocs(emitted[i].model) :
            run' = [kind |-> "parse_list", i |-> i, in |-> <<>>, indent |-> 0, text |-> json,
                    res |-> parse_list(emitted[i], json, JunkV, 0 - 1)]
    /\ UNCHANGED <<vocab, lex, p, m, models, status, last, emitted, drv, builder, hm, resolver, arena>>

(***************************************************************************)
(* main (jsgen.c:527-570); at is "loop" while main runs and "returned"     *)
(* once it has returned rc.  An argument is "-o", the path of a file or    *)
(* the path of a directory; what is known of a file is what parse_file     *)
(* does with it: decls are the Models its complete declarations finalize   *)
(* before the scan ends or fails, rc is the value parse_file returns (-1   *)
(* for a file that cannot be read or whose scan meets CLEX_parse_error).   *)
(* A directory entry with header = FALSE is no regular file named *.h.     *)
(***************************************************************************)
MaxArgs    == 2
MaxEntries == 2

DeclN ==
    [Model0 EXCEPT !.name = <<"struct ", "n">>, !.simple_name = "n",
                   !.stringify = TRUE, !.parse = TRUE]

DeclA ==
    [Model0 EXCEPT !.name = <<"a">>, !.simple_name = "a", !.parse = TRUE]

Files ==
    { [decls |-> <<>>, rc |-> 0], [decls |-> <<DeclN>>, rc |-> 0],
      [decls |-> <<DeclA>>, rc |-> 0], [decls |-> <<>>, rc |-> 0 - 1],
      [decls |-> <<DeclN>>, rc |-> 0 - 1] }

Unreadable == [decls |-> <<>>, rc |-> 0 - 1]

Entries == { [header |-> TRUE, file |-> f] : f \in Files } \cup
           { [header |-> FALSE, file |-> Unreadable] }

SeqsUpTo(S, n) == UNION { [1..k -> S] : k \in 0..n }

Args == { [kind |-> "file", name |-> "f.h", file |-> f] : f \in Files } \cup
        { [kind |-> "dir", name |-> "d", entries |-> es] : es \in SeqsUpTo(Entries, MaxEntries) } \cup
        { [kind |-> "-o", name |-> "-o"] }

(* parse_file(filename, models): the value returned and the registry the   *)
(* call leaves: handle_semicolon has appended the file's Models to it.     *)
parse_file(file, registry) == [rc |-> file.rc, models |-> registry \o file.decls]

(* main before it is called, and its locals at its first statement. *)
Drv0 ==
    [argv |-> <<>>, i |-> 1, dir |-> 0, out_filename |-> "models.g.h", models |-> <<>>,
     scanned |-> <<>>, written |-> <<>>, at |-> "idle", rc |-> 0]

MainStart(argv) == [Drv0 EXCEPT !.argv = argv, !.at = "loop"]

DrvStep(d) ==
    /\ drv' = d
    /\ UNCHANGED <<scanvars, builder, hm, resolver, arena>>

(* if (argc < 2) { printf(usage); return -1; } *)
MainUsage ==
    /\ drv.at = "loop"
    /\ Len(drv.argv) < 1
    /\ DrvStep([drv EXCEPT !.at = "returned", !.rc = 0 - 1])

(* strcmp(argv[i], "-o") == 0 && i + 1 < argc: the next argument is the    *)
(* name of the output file.                                                *)
MainOption ==
    /\ drv.at = "loop"
    /\ drv.i + 1 <= Len(drv.argv)
    /\ drv.argv[drv.i].kind = "-o"
    /\ DrvStep([drv EXCEPT !.out_filename = drv.argv[drv.i + 1].name, !.i = drv.i + 2])

(* opendir fails: the argument is scanned as a file, and a failure ends    *)
(* the run.  A last argument "-o" names no file.                           *)
MainFile ==
    /\ drv.at = "loop"
    /\ drv.i <= Len(drv.argv)
    /\ drv.argv[drv.i].kind # "dir"
    /\ drv.argv[drv.i].kind = "-o" => drv.i = Len(drv.argv)
    /\ LET a == drv.argv[drv.i]
           r == parse_file(IF a.kind = "file" THEN a.file ELSE Unreadable, drv.models)
       IN  DrvStep([drv EXCEPT !.models = r.models,
                               !.scanned = Append(drv.scanned, r.rc),
                               !.i = IF r.rc # 0 THEN drv.i ELSE drv.i + 1,
                               !.at = IF r.rc # 0 THEN "returned" ELSE "loop",
                               !.rc = IF r.rc # 0 THEN 0 - 1 ELSE 0])

(* One readdir of the directory argv[i]: a regular file named *.h is       *)
(* scanned, and a failure is printed.                                      *)
MainDirEntry ==
    /\ drv.at = "loop"
    /\ drv.i <= Len(drv.argv)
    /\ drv.argv[drv.i].kind = "dir"
    /\ drv.dir < Len(drv.argv[drv.i].entries)
    /\ LET e == drv.argv[drv.i].entries[drv.dir + 1]
           r == parse_file(e.file, drv.models)
       IN  DrvStep(IF e.header
                   THEN [drv EXCEPT !.models = r.models,
                                    !.scanned = Append(drv.scanned, r.rc),
                                    !.dir = drv.dir + 1]
                   ELSE [drv EXCEPT !.dir = drv.dir + 1])

(* readdir returns NULL: closedir, and the next argument. *)
MainCloseDir ==
    /\ drv.at = "loop"
    /\ drv.i <= Len(drv.argv)
    /\ drv.argv[drv.i].kind = "dir"
    /\ drv.dir = Len(drv.argv[drv.i].entries)
    /\ DrvStep([drv EXCEPT !.i = drv.i + 1, !.dir = 0])

(* generate_all_code(out_filename, &models); return 0: the include         *)
(* directives, then generate_model_code of every Model of the registry.    *)
MainGenerate ==
    /\ drv.at = "loop"
    /\ Len(drv.argv) >= 1
    /\ drv.i > Len(drv.argv)
    /\ DrvStep([drv EXCEPT !.written = Append(drv.written,
                                [name     |-> drv.out_filename,
                                 includes |-> <<"jsb.h", "jsp.h">>,
                                 code     |-> generate_all_code(drv.models)]),
                           !.at = "returned", !.rc = 0])

NextMain ==
    \/ MainUsage
    \/ MainOption
    \/ MainFile
    \/ MainDirEntry
    \/ MainCloseDir
    \/ MainGenerate

(***************************************************************************)
(* A program that calls the JSON builder (src/jsb.h) directly on a         *)
(* zero-initialised Jsb.  builder.j is the Jsb, was the Jsb before the     *)
(* last call, call and rc the last call and the value it returned, failed *)
(* whether some call so far returned a value other than 0.                 *)
(***************************************************************************)
MaxCalls == 5
MaxNest  == 2

(* jsb_date_fmt: datebuf is the text strftime left for the timestamp and   *)
(* the format; it is written as an escaped string.                         *)
jsb_date_fmt(j, datebuf) ==
    IF jsb_check_val(j) # 0 THEN Fail(j)
    ELSE Ok([jsb_escaped_nstring(JsbSeparate(j), datebuf, Len(datebuf))
             EXCEPT !.is_first = FALSE, !.is_key = FALSE])

Builder0 ==
    [j |-> JsbZero(0), was |-> JsbZero(0), call |-> "none", rc |-> 0, calls |-> 0,
     failed |-> FALSE]

Call(name, r) ==
    /\ builder' = [j |-> r.j, was |-> builder.j, call |-> name, rc |-> r.rc,
                   calls |-> builder.calls + 1, failed |-> builder.failed \/ r.rc # 0]
    /\ UNCHANGED <<scanvars, drv, hm, resolver, arena>>

CallBeginObject ==
    /\ builder.calls < MaxCalls
    /\ builder.j.level < MaxNest
    /\ Call("jsb_begin_object", jsb_begin_object(builder.j))

CallEndObject ==
    /\ builder.calls < MaxCalls
    /\ Call("jsb_end_object", jsb_end_object(builder.j))

CallBeginArray ==
    /\ builder.calls < MaxCalls
    /\ builder.j.level < MaxNest
    /\ Call("jsb_begin_array", jsb_begin_array(builder.j))

CallEndArray ==
    /\ builder.calls < MaxCalls
    /\ Call("jsb_end_array", jsb_end_array(builder.j))

CallKey ==
    /\ builder.calls < MaxCalls
    /\ Call("jsb_key", jsb_key(builder.j, <<"k">>))

CallNstring ==
    /\ builder.calls < MaxCalls
    /\ \E str \in {<<>>, <<"x", "\"">>} :
          Call("jsb_nstring", jsb_nstring(builder.j, IF str = <<>> THEN NULL ELSE str, Len(str)))

CallInt ==
    /\ builder.calls < MaxCalls
    /\ Call("jsb_int", jsb_int(builder.j, 0 - 7))

CallNumber ==
    /\ builder.calls < MaxCalls
    /\ Call("jsb_number", jsb_number(builder.j, 3, 2))

CallBool ==
    /\ builder.calls < MaxCalls
    /\ \E value \in BOOLEAN : Call("jsb_bool", jsb_bool(builder.j, value))

CallNull ==
    /\ builder.calls < MaxCalls
    /\ Call("jsb_null", jsb_null(builder.j))

CallDateFmt ==
    /\ builder.calls < MaxCalls
    /\ Call("jsb_date_fmt", jsb_date_fmt(builder.j, <<"1", "9", "7", "0">>))

NextJsb ==
    \/ CallBeginObject
    \/ CallEndObject
    \/ CallBeginArray
    \/ CallEndArray
    \/ CallKey
    \/ CallNstring
    \/ CallInt
    \/ CallNumber
    \/ CallBool
    \/ CallNull
    \/ CallDateFmt

(***************************************************************************)
(* The hash map of src/ds.h (ds_hm_declare(map, const char *, int)) with   *)
(* the default hash and equality functions.  table is the dynamic array of *)
(* buckets, table[h + 1] being the C table.data[h], and a bucket is the    *)
(* sequence of its key-value pairs; table.length is Len(table).  A pointer *)
(* to a value is the bucket and the index of the slot it points into.      *)
(* A key is the sequence of its characters.                                *)
(***************************************************************************)

(* The build's -DDS_DA_INIT_CAPACITY (ds.h:78-80 keeps a value given on    *)
(* the command line): small, so that the table is resized.                 *)
DS_DA_INIT_CAPACITY == 2

Keys   == {<<"a">>, <<"b">>, <<"c">>}
Values == {0, 7}

CharCode(c) == IF c = "a" THEN 97 ELSE IF c = "b" THEN 98 ELSE 99

(* _ds_hash_string: hash = 5381; hash = ((hash << 5) + hash) + c.  No key  *)
(* of Keys is long enough for size_t to wrap.                              *)
RECURSIVE HashFrom(_, _, _)
HashFrom(key, i, hash) ==
    IF i > Len(key) THEN hash ELSE HashFrom(key, i + 1, (hash * 32 + hash) + CharCode(key[i]))

ds_hash_string(key) == HashFrom(key, 1, 5381)

(* _ds_eq_str: strcmp(a, b) == 0. *)
ds_eq_str(a, b) == a = b

(* ds_da_reserve: the capacity after reserving expected_capacity. *)
RECURSIVE GrowCapacity(_, _)
GrowCapacity(capacity, expected) ==
    IF expected > capacity THEN GrowCapacity(capacity + capacity \div 2, expected)
    ELSE capacity

ds_da_reserve(capacity, expected) ==
    IF expected > capacity
    THEN GrowCapacity(IF capacity = 0 THEN DS_DA_INIT_CAPACITY ELSE capacity, expected)
    ELSE capacity

(* ds_da_remove(da, idx, 1) on a bucket: the pairs after idx move down by  *)
(* one and the slot after the last pair is zeroed.                         *)
ds_da_remove(da, idx) ==
    IF idx < Len(da) THEN SubSeq(da, 1, idx) \o SubSeq(da, idx + 2, Len(da)) ELSE da

HmZero == [table |-> <<>>, size |-> 0]

NullPtr == [null |-> TRUE, bucket |-> 0, idx |-> 0]
ValuePtr(hash, i) == [null |-> FALSE, bucket |-> hash, idx |-> i]

(* *ptr: the value in the slot, which is zero past the bucket's length     *)
(* (the memset of ds_da_remove).                                           *)
Deref(map, ptr) ==
    LET da == map.table[ptr.bucket + 1]
    IN  IF ptr.idx < Len(da) THEN da[ptr.idx + 1].value ELSE 0

(* The pairs of a table in the order _ds_hm_resize visits them. *)
RECURSIVE PairsFrom(_, _)
PairsFrom(table, i) ==
    IF i > Len(table) THEN <<>> ELSE table[i] \o PairsFrom(table, i + 1)

RECURSIVE Rehash(_, _, _)
Rehash(new_table, kvs, j) ==
    IF j > Len(kvs) THEN new_table
    ELSE LET h == ds_hash_string(kvs[j].key) % Len(new_table)
         IN  Rehash([new_table EXCEPT ![h + 1] = Append(new_table[h + 1], kvs[j])], kvs, j + 1)

(* A resize that allocates the new table and moves no pair into it. *)
ResizeDropping(map) ==
    [map EXCEPT !.table = [h \in 1..ds_da_reserve(0, IF Len(map.table) = 0 THEN 1
                                                     ELSE Len(map.table) * 2) |-> <<>>]]

ds_hm_resize(map) ==
    LET wanted       == IF Len(map.table) = 0 THEN 1 ELSE Len(map.table) * 2
        new_capacity == ds_da_reserve(0, wanted)
    IN  [map EXCEPT !.table = Rehash([h \in 1..new_capacity |-> <<>>],
                                     PairsFrom(map.table, 1), 1)]

(* The index of the first pair of the bucket with the key, -1 for none. *)
FindKey(da, key) ==
    IF \E i \in 1..Len(da) : ds_eq_str(da[i].key, key)
    THEN (CHOOSE i \in 1..Len(da) :
            /\ ds_eq_str(da[i].key, key)
            /\ \A h \in 1..(i - 1) : ~ds_eq_str(da[h].key, key)) - 1
    ELSE 0 - 1

SetIn(map, key_v, val_v) ==
    LET hash == ds_hash_string(key_v) % Len(map.table)
        da   == map.table[hash + 1]
        i    == FindKey(da, key_v)
    IN  IF i >= 0
        THEN [map EXCEPT !.table[hash + 1][i + 1].value = val_v]
        ELSE [map EXCEPT !.table[hash + 1] = Append(da, [key |-> key_v, value |-> val_v]),
                         !.size = map.size + 1]

(* size >= table.length * DS_HM_LOAD_FACTOR, the factor being 0.75f. *)
ds_hm_set(map, key_v, val_v) ==
    IF Len(map.table) = 0 \/ 4 * map.size >= 3 * Len(map.table)
    THEN SetIn(ds_hm_resize(map), key_v, val_v)
    ELSE SetIn(map, key_v, val_v)

TryIn(map, key_v, hash) ==
    IF FindKey(map.table[hash + 1], key_v) >= 0
    THEN ValuePtr(hash, FindKey(map.table[hash + 1], key_v))
    ELSE NullPtr

ds_hm_try(map, key_v) ==
    IF Len(map.table) # 0
    THEN TryIn(map, key_v, ds_hash_string(key_v) % Len(map.table))
    ELSE NullPtr

GetIn(da, key_v) ==
    IF FindKey(da, key_v) >= 0 THEN da[FindKey(da, key_v) + 1].value ELSE 0

(* ds_hm_get where table.length is not 0. *)
ds_hm_get(map, key_v) ==
    GetIn(map.table[(ds_hash_string(key_v) % Len(map.table)) + 1], key_v)

(* The loop of ds_hm_remove from _i = i: it does not end at the pair it    *)
(* removes.                                                                *)
RECURSIVE RemoveFrom(_, _, _, _, _)
RemoveFrom(map, hash, key_v, i, val) ==
    LET da == map.table[hash + 1]
    IN  IF i >= Len(da) THEN [map |-> map, ret |-> val]
        ELSE IF ds_eq_str(da[i + 1].key, key_v)
        THEN RemoveFrom([map EXCEPT !.table[hash + 1] = ds_da_remove(da, i),
                                    !.size = map.size - 1],
                        hash, key_v, i + 1, ValuePtr(hash, i))
        ELSE RemoveFrom(map, hash, key_v, i + 1, val)

(* ds_hm_remove where table.length is not 0. *)
ds_hm_remove(map, key_v) ==
    RemoveFrom(map, ds_hash_string(key_v) % Len(map.table), key_v, 0, NullPtr)

(***************************************************************************)
(* A program that calls the map.  hm.map is the map, was the map before    *)
(* the last call, call, key and ret the last call, its key and what it     *)
(* returned (reads is *ret read right after the call, for a pointer that   *)
(* is not NULL); set records, for every key, the value last set and not    *)
(* removed since (Unset for none).  `% table.length` with table.length 0   *)
(* is undefined: the call traps (alive becomes FALSE, the program has      *)
(* ended) or goes on as if the key were not found.                         *)
(***************************************************************************)
Unset == 0 - 1

Hm0 ==
    [map |-> HmZero, was |-> HmZero, call |-> "none", key |-> <<>>, ret |-> NullPtr,
     reads |-> 0, set |-> [k \in Keys |-> Unset], had |-> [k \in Keys |-> Unset],
     alive |-> TRUE]

HmStep(h) ==
    /\ hm' = [h EXCEPT !.was = hm.map, !.had = hm.set]
    /\ UNCHANGED <<scanvars, drv, builder, resolver, arena>>

Trapped(name, key_v) ==
    [hm EXCEPT !.call = name, !.key = key_v, !.ret = NullPtr, !.reads = 0, !.alive = FALSE]

HmSet ==
    /\ hm.alive
    /\ \E key_v \in Keys, val_v \in Values :
          HmStep([hm EXCEPT !.map = ds_hm_set(hm.map, key_v, val_v),
                            !.call = "ds_hm_set", !.key = key_v, !.ret = NullPtr, !.reads = 0,
                            !.set[key_v] = val_v])

HmTry ==
    /\ hm.alive
    /\ \E key_v \in Keys :
          LET ret == ds_hm_try(hm.map, key_v)
          IN  HmStep([hm EXCEPT !.call = "ds_hm_try", !.key = key_v, !.ret = ret,
                                !.reads = IF ret.null THEN 0 ELSE Deref(hm.map, ret)])

HmGet ==
    /\ hm.alive
    /\ \E key_v \in Keys :
          IF Len(hm.map.table) = 0
          THEN \/ HmStep(Trapped("ds_hm_get", key_v))
               \/ HmStep([hm EXCEPT !.call = "ds_hm_get", !.key = key_v, !.ret = NullPtr,
                                    !.reads = 0])
          ELSE HmStep([hm EXCEPT !.call = "ds_hm_get", !.key = key_v, !.ret = NullPtr,
                                 !.reads = ds_hm_get(hm.map, key_v)])

HmRemove ==
    /\ hm.alive
    /\ \E key_v \in Keys :
          IF Len(hm.map.table) = 0
          THEN \/ HmStep(Trapped("ds_hm_remove", key_v))
               \/ HmStep([hm EXCEPT !.call = "ds_hm_remove", !.key = key_v, !.ret = NullPtr,
                                    !.reads = 0])
          ELSE LET r == ds_hm_remove(hm.map, key_v)
               IN  HmStep([hm EXCEPT !.map = r.map, !.call = "ds_hm_remove", !.key = key_v,
                                     !.ret = r.ret,
                                     !.reads = IF r.ret.null THEN 0 ELSE Deref(r.map, r.ret),
                                     !.set[key_v] = Unset])

NextHm ==
    \/ HmSet
    \/ HmTry
    \/ HmGet
    \/ HmRemove

(***************************************************************************)
(* The Type Resolver under direct calls and the emitter on one field       *)
(* (jsgen.c:62-96, 259-385).  resolver holds the type string handed to     *)
(* get_jsp_type and get_jsb_type, their answers and, when the type is the  *)
(* one of a field, the statements emitted for that field.                  *)
(***************************************************************************)
MaxStars    == 2    \* trailing pointer markers of a type string
MaxResolves == 2    \* calls made in one run

TypeNames == {"int", "long", "size_t", "float", "double", "bool", "char", "Foo"}

Stars(n) == [i \in 1..n |-> "*"]

(* Type strings: an optional record-kind prefix, a name, pointer markers. *)
TypeStrings ==
    { FieldType(prefix, name) \o Stars(n) :
        prefix \in {<<>>, <<"struct ">>}, name \in TypeNames, n \in 0..MaxStars }

(* The fields parse_field builds from `[struct] name [*] a` and            *)
(* `[struct] name [*] a[...]`: type has the marker iff one was read, and   *)
(* the brackets set is_array and is_pointer.                               *)
DeclaredFields ==
    { [Field0 EXCEPT !.name = "a",
                     !.type = FieldType(prefix, name) \o Stars(IF ptr THEN 1 ELSE 0),
                     !.simple_type = name,
                     !.is_pointer = ptr \/ arr,
                     !.is_array = arr] :
        prefix \in {<<>>, <<"struct ">>}, name \in TypeNames,
        ptr \in BOOLEAN, arr \in BOOLEAN }

Resolver0 ==
    [type |-> <<>>, jsp |-> NULL, jsb |-> NULL, field |-> Field0,
     parse |-> <<>>, stringify |-> <<>>, calls |-> 0]

(* get_jsp_type(type) and get_jsb_type(type) on a type string. *)
ResolveType ==
    /\ resolver.calls < MaxResolves
    /\ \E type \in TypeStrings :
        resolver' = [type |-> type, jsp |-> get_jsp_type(type), jsb |-> get_jsb_type(type),
                     field |-> Field0, parse |-> <<>>, stringify |-> <<>>,
                     calls |-> resolver.calls + 1]
    /\ UNCHANGED <<scanvars, drv, builder, hm, arena>>

(* gen_parse_field_body(field) and gen_stringify_field(field). *)
EmitField ==
    /\ resolver.calls < MaxResolves
    /\ \E field \in DeclaredFields :
        resolver' = [type |-> field.type,
                     jsp |-> get_jsp_type(field.type), jsb |-> get_jsb_type(field.type),
                     field |-> field,
                     parse |-> gen_parse_field_body(field),
                     stringify |-> gen_stringify_field(field),
                     calls |-> resolver.calls + 1]
    /\ UNCHANGED <<scanvars, drv, builder, hm, arena>>

NextResolver ==
    \/ ResolveType
    \/ EmitField

(***************************************************************************)
(* The basic allocator of the generated parsers (jsgen.h:83-97).  used is  *)
(* jsgen__basic_alloc_size; a pointer into jsgen__basic_alloc is its       *)
(* offset from the start of the array and NoRegion is the null pointer.    *)
(* regions are the allocations that succeeded since the last jsgen_free,   *)
(* was_used is the offset before the last call.                            *)
(***************************************************************************)
(* 8 * 1024 * 1024 bytes. *)
JSGEN_BASIC_ALLOC_SIZE == 8388608

MaxRegions == 3     \* successful allocations between two jsgen_free calls

NoRegion == 0 - 1

(* The sizes asked for. *)
Sizes == {0, 1, JSGEN_BASIC_ALLOC_SIZE \div 2, JSGEN_BASIC_ALLOC_SIZE - 1,
          JSGEN_BASIC_ALLOC_SIZE, JSGEN_BASIC_ALLOC_SIZE + 1}

(* The test of jsgen_basic_alloc if it compared with the whole array. *)
FitsArray(used, size) == size <= JSGEN_BASIC_ALLOC_SIZE

(* if (size > JSGEN_BASIC_ALLOC_SIZE - jsgen__basic_alloc_size) return NULL *)
Fits(used, size) == ~(size > JSGEN_BASIC_ALLOC_SIZE - used)

(* jsgen_basic_alloc: [used |-> the offset afterwards, ptr |-> the result]. *)
jsgen_basic_alloc(used, size) ==
    IF ~Fits(used, size) THEN [used |-> used, ptr |-> NoRegion]
    ELSE [used |-> used + size, ptr |-> used]

(* jsgen_free: the offset afterwards. *)
jsgen_free(used) == 0

Arena0 ==
    [used |-> 0, regions |-> <<>>, call |-> "none", size |-> 0, ptr |-> NoRegion,
     was_used |-> 0]

ArenaAlloc ==
    /\ Len(arena.regions) < MaxRegions
    /\ \E size \in Sizes :
        LET r == jsgen_basic_alloc(arena.used, size)
        IN  arena' = [used |-> r.used,
                      regions |-> IF r.ptr = NoRegion THEN arena.regions
                                  ELSE Append(arena.regions, [at |-> r.ptr, size |-> size]),
                      call |-> "jsgen_basic_alloc", size |-> size, ptr |-> r.ptr,
                      was_used |-> arena.used]
    /\ UNCHANGED <<scanvars, drv, builder, hm, resolver>>

ArenaFree ==
    /\ arena' = [used |-> jsgen_free(arena.used), regions |-> <<>>, call |-> "jsgen_free",
                 size |-> 0, ptr |-> NoRegion, was_used |-> arena.used]
    /\ UNCHANGED <<scanvars, drv, builder, hm, resolver>>

NextArena ==
    \/ ArenaAlloc
    \/ ArenaFree

InitScan ==
    /\ vocab \in DOMAIN Vocabs
    /\ lex = Lexer0
    /\ p = Parser0
    /\ m = Model0
    /\ models = <<>>
    /\ status = "scan"
    /\ last = NoTok
    /\ emitted = <<>>
    /\ run = NoRun

Init ==
    /\ InitScan
    /\ drv = Drv0
    /\ builder = Builder0
    /\ hm = Hm0
    /\ resolver = Resolver0
    /\ arena = Arena0

Next ==
    \/ ScanEnd
    \/ ScanSkip
    \/ ScanId
    \/ ScanOpen
    \/ ScanClose
    \/ ScanSemicolon
    \/ ScanError
    \/ ScanOther
    \/ Generate
    \/ RunStringify
    \/ RunParse
    \/ RunParseBack
    \/ RunParseList

Spec == Init /\ [][Next]_vars

(* The same program on the files that declare counted and bare arrays. *)
InitArrays == Init /\ vocab \in {"counter", "scalars", "arrays", "errors"}
SpecArrays == InitArrays /\ [][Next]_vars

(* The same program on the files that declare plain, aliased, literal and  *)
(* ignored fields.                                                         *)
InitFields == Init /\ vocab \in {"fields", "alias", "ignore", "errors"}
SpecFields == InitFields /\ [][Next]_vars

(* main on every argument list of up to MaxArgs arguments. *)
InitMain ==
    /\ InitScan
    /\ vocab = "fields"
    /\ drv \in { MainStart(argv) : argv \in SeqsUpTo(Args, MaxArgs) }
    /\ builder = Builder0
    /\ hm = Hm0
    /\ resolver = Resolver0
    /\ arena = Arena0
SpecMain == InitMain /\ [][NextMain]_vars

(* A writer that opens containers one inside the other and then closes    *)
(* them: arrays in arrays, the innermost container an array or an object.  *)
(* It stops nesting after JSB_MAX_NESTING begin calls and makes no call on *)
(* a builder whose level is outside the state stack.                       *)
NestArray ==
    /\ builder.calls < JSB_MAX_NESTING
    /\ builder.j.level < JSB_MAX_NESTING
    /\ builder.call \in {"none", "jsb_begin_array"}
    /\ \E r \in JsbBeginOutcomes(builder.j, "[", "ARRAY") : Call("jsb_begin_array", r)

NestObject ==
    /\ builder.calls < JSB_MAX_NESTING
    /\ builder.j.level < JSB_MAX_NESTING
    /\ builder.call \in {"none", "jsb_begin_array"}
    /\ \E r \in JsbBeginOutcomes(builder.j, "{", "OBJECT") : Call("jsb_begin_object", r)

Unnest ==
    /\ builder.calls < 2 * JSB_MAX_NESTING
    /\ builder.j.level \in 1..(JSB_MAX_NESTING - 1)
    /\ IF builder.j.state[builder.j.level + 1] = "OBJECT"
       THEN Call("jsb_end_object", jsb_end_object(builder.j))
       ELSE Call("jsb_end_array", jsb_end_array(builder.j))

NextNest ==
    \/ NestArray
    \/ NestObject
    \/ Unnest

(* Direct calls of the builder, plain and pretty-printing. *)
InitJsb ==
    /\ InitScan
    /\ vocab = "fields"
    /\ drv = Drv0
    /\ builder \in { [Builder0 EXCEPT !.j = JsbZero(pp), !.was = JsbZero(pp)] : pp \in {0, 2} }
    /\ hm = Hm0
    /\ resolver = Resolver0
    /\ arena = Arena0
SpecJsb == InitJsb /\ [][NextJsb]_vars

(* The nesting writer on the same builders, indenting by one space or not at all. *)
InitNest ==
    /\ InitScan
    /\ vocab = "fields"
    /\ drv = Drv0
    /\ builder \in { [Builder0 EXCEPT !.j = JsbZero(pp), !.was = JsbZero(pp)] : pp \in {0, 1} }
    /\ hm = Hm0
    /\ resolver = Resolver0
    /\ arena = Arena0
SpecNest == InitNest /\ [][NextNest]_vars

(* Calls of the hash map, from the zero-initialised map on. *)
InitHm ==
    /\ InitScan
    /\ vocab = "fields"
    /\ drv = Drv0
    /\ builder = Builder0
    /\ hm = Hm0
    /\ resolver = Resolver0
    /\ arena = Arena0
SpecHm == InitHm /\ [][NextHm]_vars

(* while (stb_c_lexer_get_token(&lex)): one iteration of parse_file's loop, *)
(* or its end.                                                             *)
ScanLoop ==
    \/ ScanEnd
    \/ ScanSkip
    \/ ScanId
    \/ ScanOpen
    \/ ScanClose
    \/ ScanSemicolon
    \/ ScanError
    \/ ScanOther

(* The program on the files with unclosed brackets, with identifiers       *)
(* between brackets and with unreadable tokens; and the same with          *)
(* parse_file running on: an iteration that can be made is made.           *)
InitOdd == Init /\ vocab \in {"odd", "errors"}
SpecOdd == InitOdd /\ [][Next]_vars
SpecOddLive == InitOdd /\ [][Next]_vars /\ WF_vars(ScanLoop)

(* The same program on the files that declare characters and strings. *)
InitStrings == Init /\ vocab \in {"strings", "errors"}
SpecStrings == InitStrings /\ [][Next]_vars

(* Direct calls of the Type Resolver and of the emitter on one field. *)
InitResolver == Init /\ vocab = "fields"
SpecResolver == InitResolver /\ [][NextResolver]_vars

(* Calls of the basic allocator, from the zeroed static array on. *)
InitArena == Init /\ vocab = "fields"
SpecArena == InitArena /\ [][NextArena]_vars

(***************************************************************************)
(* Reading the text a stringifier produced.                                *)
(***************************************************************************)

(* How many containers are open at the h-th character of text. *)
DepthAt(text, h) ==
    Cardinality({ i \in 1..(h - 1) : text[i] \in {"{", "["} }) -
    Cardinality({ i \in 1..(h - 1) : text[i] \in {"}", "]"} })

(* The 0-based offsets just after `"k": ` in text, for k a key of the      *)
(* outermost object.                                                       *)
KeyEnds(text, k) ==
    { h + 4 : h \in { i \in 1..(Len(text) - 4) :
                        /\ SubSeq(text, i, i + 4) = <<"\"", k, "\"", ":", " ">>
                        /\ DepthAt(text, i) = 1 } }

HasKey(text, k) == KeyEnds(text, k) # {}

(* The text is an array of n elements from offset off on. *)
ArrayAt(text, off, n) ==
    /\ JspAt(text, off) = "["
    /\ jsp_array_length([JspInit(text) EXCEPT !.off = off + 1]) = n

RunModel == emitted[run.i].model

(* {"k":v} as Docs writes it. *)
Doc1(k, v) == <<"{", "\"", k, "\"", ":">> \o v \o <<"}">>

FooArrayText ==
    <<"[", "{", "\"", "n", "\"", ":", "1", "}", ",", "{", "\"", "n", "\"", ":", "2", "}", "]">>

(***************************************************************************)
(* C1: for an array field annotated sized_by("n") whose counter n is a     *)
(* member of the same Model, whatever the element type, the stringifier    *)
(* writes the field as a JSON array of exactly in->n elements and writes   *)
(* no key for n, and the parser, given an array of k elements under the    *)
(* field's key, stores k elements in order and sets n to k.                *)
(***************************************************************************)
C1_SizedArray ==
    /\ run.kind = "stringify" =>
         \A i \in 1..Len(RunModel.fields) :
            LET f == RunModel.fields[i] IN
            (f.has_counter /\ run.in[f.name] # NullV) =>
                /\ run.text # NULL
                /\ \E off \in KeyEnds(run.text, js_getalias(f)) :
                      ArrayAt(run.text, off, run.in[f.counter_field].v)
                /\ ~HasKey(run.text, f.counter_field)
    /\ run.kind = "parse" =>
         \A i \in 1..Len(RunModel.fields) :
            LET f == RunModel.fields[i] IN
            (f.has_counter /\ run.text = Doc1(js_getalias(f), FooArrayText)) =>
                /\ run.res.rc = 0
                /\ run.res.out[f.name] =
                      ArrV(HeapAddr, <<[n \in {"n"} |-> IntV(1)], [n \in {"n"} |-> IntV(2)]>>)
                /\ run.res.out[f.counter_field] = IntV(2)

(* The members whose keys the text holds: the `": "` that ends a key of    *)
(* the outermost object.                                                   *)
MembersWritten(text) ==
    Cardinality({ i \in 1..(Len(text) - 1) :
                    SubSeq(text, i, i + 1) = <<":", " ">> /\ DepthAt(text, i) = 1 })

(* The 0-based offsets at which word stands in text. *)
Occurrences(text, word) ==
    { i - 1 : i \in { h \in 1..(Len(text) - Len(word) + 1) :
                        SubSeq(text, h, h + Len(word) - 1) = word } }

(* The keys of the outermost object of a JSON text handed to a parser. *)
DocHasKey(text, k) ==
    \E i \in 1..(Len(text) - 3) :
        SubSeq(text, i, i + 3) = <<"\"", k, "\"", ":">> /\ DepthAt(text, i) = 1

(***************************************************************************)
(* C2: the stringifier writes neither the key nor any value, JSON null     *)
(* included, for a pointer field that is null: the text has one member per *)
(* field that is neither a counter nor a null pointer, none of them under  *)
(* the null field's key, and a null only where a json_literal field holds  *)
(* the empty string.  The parser, given an object that lacks a pointer     *)
(* field's key, leaves the field as the caller handed it in.               *)
(***************************************************************************)
C2_NullPointerOmitted ==
    /\ run.kind = "stringify" =>
         LET fs == RunModel.fields
             nullptr(i) == fs[i].is_pointer /\ run.in[fs[i].name] = NullV
         IN  (\E i \in 1..Len(fs) : nullptr(i)) =>
               /\ run.text # NULL
               /\ \A i \in 1..Len(fs) : nullptr(i) => ~HasKey(run.text, js_getalias(fs[i]))
               /\ MembersWritten(run.text) =
                     Cardinality({ i \in 1..Len(fs) : ~fs[i].is_counter_field /\ ~nullptr(i) })
               /\ \A off \in Occurrences(run.text, <<"n", "u", "l", "l">>) :
                     \E i \in 1..Len(fs) :
                        /\ fs[i].is_json_literal
                        /\ run.in[fs[i].name] = StrV(<<>>)
                        /\ off \in KeyEnds(run.text, js_getalias(fs[i]))
    /\ run.kind = "parse" =>
         \A i \in 1..Len(RunModel.fields) :
            LET f == RunModel.fields[i] IN
            (f.is_pointer /\ ~DocHasKey(run.text, js_getalias(f)))
               => run.res.out[f.name] = JunkV

C2_Witness ==
    /\ run.kind = "stringify"
    /\ run.text # NULL
    /\ MembersWritten(run.text) = 1
    /\ \E i \in 1..Len(RunModel.fields) :
          RunModel.fields[i].is_pointer /\ run.in[RunModel.fields[i].name] = NullV

(***************************************************************************)
(* C3: for a field declared with alias("x") the stringifier writes the key *)
(* "x" and not the declared identifier, and the parser dispatches "x" to   *)
(* the field and sends the declared identifier to the skip-value branch,   *)
(* unless that identifier is the key of another field.                     *)
(***************************************************************************)
KeysOf(model) ==
    { js_getalias(model.fields[i]) :
        i \in { h \in 1..Len(model.fields) : ~model.fields[h].is_counter_field } }

C3_AliasIsTheKey ==
    \A i \in 1..(IF run.kind = "none" THEN 0 ELSE Len(RunModel.fields)) :
        LET f == RunModel.fields[i] IN
        (f.has_alias /\ ~f.is_counter_field) =>
            /\ (run.kind = "stringify" /\ run.text # NULL
                  /\ ~(f.is_pointer /\ run.in[f.name] = NullV)) =>
                   /\ HasKey(run.text, f.alias)
                   /\ f.name \notin KeysOf(RunModel) => ~HasKey(run.text, f.name)
            /\ (run.kind = "parse" /\ f.name \notin KeysOf(RunModel)) =>
                   \A v \in JsonValues :
                      run.text = Doc1(f.name, v) =>
                         /\ run.res.skipped = <<Chars(f.name)>>
                         /\ run.res.out[f.name] = JunkV
            /\ (run.kind = "parse"
                  /\ \A h \in 1..(i - 1) : js_getalias(RunModel.fields[h]) # f.alias) =>
                   \A v \in JsonValues :
                      run.text = Doc1(f.alias, v) =>
                         /\ \A h \in 1..Len(run.res.skipped) :
                               run.res.skipped[h] # Chars(f.alias)
                         /\ run.res.out[f.name] # JunkV

C3_Witness ==
    /\ run.kind = "parse"
    /\ \E i \in 1..Len(RunModel.fields) :
          /\ RunModel.fields[i].has_alias
          /\ RunModel.fields[i].alias = "x"
          /\ run.res.skipped = <<Chars(RunModel.fields[i].name)>>

(***************************************************************************)
(* C4: jsgen_ignore read as the annotation of the field just declared      *)
(* removes exactly that field from the working Model and nothing else, so  *)
(* no emitted function mentions it; a Model finalized with no field gets a *)
(* parser whose dispatch chain is the skip-value branch alone, which every *)
(* key takes.                                                              *)
(***************************************************************************)
C4_IgnoreStep ==
    (status = "scan" /\ last' = Id("jsgen_ignore")) =>
        /\ m' = [m EXCEPT !.fields = Front(m.fields)]
        /\ models' = models
        /\ p' = p
        /\ status' = "scan"

C4_EmptyModelSkips ==
    /\ \A i \in 1..Len(emitted) :
          /\ emitted[i].model = models[i]
          /\ emitted[i].model.fields = <<>> =>
                /\ emitted[i].stringify = <<>>
                /\ emitted[i].model.parse =>
                      emitted[i].dispatch =
                         <<[opener |-> "{", key |-> NULL, body |-> <<[op |-> "skip"]>>]>>
    /\ (run.kind = "parse" /\ RunModel.fields = <<>>) =>
          \A k \in {"n", "z"}, v \in JsonValues :
             run.text = Doc1(k, v) => run.res.rc = 0 /\ run.res.skipped = <<Chars(k)>>

C4_IgnoreRemovesField == [][C4_IgnoreStep]_vars /\ []C4_EmptyModelSkips

C4_Witness ==
    /\ status = "scan"
    /\ last = Id("jsgen_ignore")
    /\ m.fields = <<>>

(***************************************************************************)
(* C5: a field declared with brackets and no sized_by, whatever its base   *)
(* type, is stringified as an empty JSON array.                            *)
(***************************************************************************)
C5_BareArrayEmpty ==
    run.kind = "stringify" =>
        \A i \in 1..Len(RunModel.fields) :
            LET f == RunModel.fields[i] IN
            (f.is_array /\ ~f.has_counter /\ ~f.is_counter_field) =>
                /\ run.text # NULL
                /\ \E off \in KeyEnds(run.text, js_getalias(f)) : ArrayAt(run.text, off, 0)

(***************************************************************************)
(* C6: for a Model with parse and stringify both set whose fields all      *)
(* resolve to Integer, Number, Boolean or String, parsing the text the     *)
(* stringifier produced for x yields x again, member by member (members    *)
(* that are null pointers in x, which the stringifier omits, set aside).   *)
(***************************************************************************)
C6_RoundTrip ==
    (/\ run.kind = "roundtrip"
     /\ \A i \in 1..Len(RunModel.fields) :
           /\ get_jsb_type(RunModel.fields[i].type) # NULL
           /\ ~RunModel.fields[i].is_array
           /\ ~RunModel.fields[i].is_json_literal) =>
        /\ run.res.rc = 0
        /\ \A i \in 1..Len(RunModel.fields) :
              LET n == RunModel.fields[i].name IN
              run.in[n] # NullV => run.res.out[n] = run.in[n]

C8_KeywordStep ==
    (status = "scan" /\ last'.k = "id" /\ last'.s \in EnablingKeywords) =>
        /\ p' = [p EXCEPT !.can_generate = TRUE]
        /\ m' = [m EXCEPT !.parse = last'.s \notin {"JSONS", "JSGEN_JSONS"},
                          !.stringify = last'.s \notin {"JSONP", "JSGEN_JSONP"}]
        /\ models' = models
        /\ status' = "scan"

C8_FlagsKept ==
    (status = "scan" /\ status' = "scan" /\ ~(last'.k = "id" /\ last'.s \in EnablingKeywords)) =>
        IF models' # models
        THEN /\ Last(models').parse = m.parse
             /\ Last(models').stringify = m.stringify
        ELSE /\ m'.parse = m.parse
             /\ m'.stringify = m.stringify

C8_EmittedByFlags ==
    \A i \in 1..Len(emitted) :
        LET fns == { emitted[i].functions[h] : h \in 1..Len(emitted[i].functions) } IN
        /\ emitted[i].model = models[i]
        /\ {"_parse_", "parse_", "_parse__list", "parse__list"} \subseteq fns
              <=> models[i].parse
        /\ {"_parse_", "parse_", "_parse__list", "parse__list"} \cap fns # {}
              <=> models[i].parse
        /\ {"_stringify_", "stringify__indent", "stringify__list_indent"} \subseteq fns
              <=> models[i].stringify
        /\ {"_stringify_", "stringify__indent", "stringify__list_indent"} \cap fns # {}
              <=> models[i].stringify
        /\ emitted[i].dispatch # <<>> <=> models[i].parse

C9_TerminatorStep ==
    (status = "scan" /\ status' = "scan" /\ last' = Ch(";")) =>
        IF p.level = 0 /\ p.in_struct
        THEN /\ models' = Append(models, post_process_model(m))
             /\ m' = Model0
             /\ p' = [p EXCEPT !.in_substruct = FALSE, !.in_struct = FALSE,
                               !.in_typedef = FALSE, !.can_generate = FALSE]
        ELSE /\ models' = models
             /\ m' = m
             /\ p' = [p EXCEPT !.in_substruct = FALSE]

C9_OnlyTerminatorAppends ==
    models' # models =>
        /\ last' = Ch(";")
        /\ p.level = 0 /\ p.in_struct
        /\ Len(models') = Len(models) + 1

C9_FinalizedOnce == [][C9_TerminatorStep /\ C9_OnlyTerminatorAppends]_vars

C9_Witness ==
    /\ status = "scan"
    /\ last = Ch(";")
    /\ Len(models) = 1
    /\ models[1].fields # <<>>
    /\ m = Model0
    /\ ~p.in_struct /\ ~p.can_generate

(***************************************************************************)
(* C10: in every Model of the registry a field has is_counter_field set    *)
(* exactly when it is the first field of the Model with its name and some  *)
(* field of the Model has it as counter_field; no field of the working     *)
(* Model has is_counter_field set; a counter_field that names no field     *)
(* marks nothing, and the Model is finalized all the same.                 *)
(***************************************************************************)
NamedAsCounter(fields, i) ==
    \E j \in 1..Len(fields) : fields[j].has_counter /\ fields[j].counter_field = fields[i].name

C10_CounterFields ==
    /\ \A k \in 1..Len(models) :
          LET fs == models[k].fields IN
          \A i \in 1..Len(fs) :
              fs[i].is_counter_field <=>
                  /\ NamedAsCounter(fs, i)
                  /\ \A h \in 1..(i - 1) : fs[h].name # fs[i].name
    /\ \A i \in 1..Len(m.fields) : ~m.fields[i].is_counter_field

C10_Witness ==
    /\ Len(models) = 1
    /\ \E i, j \in 1..Len(models[1].fields) :
          /\ models[1].fields[i].is_counter_field
          /\ models[1].fields[j].has_counter
          /\ models[1].fields[j].counter_field = models[1].fields[i].name

(* C10 as stated: is_counter_field is set exactly when some field of the   *)
(* Model names the field as its counter_field.                             *)
C10_AsStated ==
    \A k \in 1..Len(models) :
        \A i \in 1..Len(models[k].fields) :
            models[k].fields[i].is_counter_field <=> NamedAsCounter(models[k].fields, i)

(***************************************************************************)
(* The fields of the registry: every field of every finalized Model.       *)
(***************************************************************************)
RegistryFields ==
    { models[i].fields[j] : <<i, j>> \in
        { ij \in (1..Len(models)) \X (1..MaxFields + 1) : ij[2] <= Len(models[ij[1]].fields) } }

(* C11: in every Model of the registry no field is both a counter-field    *)
(* (is_counter_field) and the owner of a counter (has_counter), whatever   *)
(* declaration was scanned, a sized_by that names its own field included.  *)
C11_CounterXorCounted ==
    \A f \in RegistryFields : ~(f.is_counter_field /\ f.has_counter)

(* C12: every field of the registry that was annotated with sized_by has   *)
(* both is_array and is_pointer set, with or without a pointer marker.     *)
C12_SizedIsPointerArray ==
    \A f \in RegistryFields : f.has_counter => f.is_array /\ f.is_pointer

(***************************************************************************)
(* C13: the working Model's fields change only at their end (a declared    *)
(* field is appended, jsgen_ignore drops the last one, an annotation       *)
(* rewrites the last one), the finalized Model has the working Model's     *)
(* fields in the same order, and the key-dispatch chain and the            *)
(* stringifier both visit the non-counter fields in that order.            *)
(***************************************************************************)
FieldNames(fs) == [i \in 1..Len(fs) |-> fs[i].name]

IsKeyed(stmt) == stmt.op \in {"key", "if_not_null"}

NotCounter(field) == ~field.is_counter_field

StringifyKeys(stmts) ==
    LET ks == SelectSeq(stmts, IsKeyed)
    IN  [i \in 1..Len(ks) |-> IF ks[i].op = "key" THEN ks[i].k ELSE ks[i].body[1].k]

DispatchKeys(chain) == [i \in 1..(Len(chain) - 1) |-> chain[i].key]

KeysInOrder(fields) ==
    LET nc == SelectSeq(fields, NotCounter)
    IN  [i \in 1..Len(nc) |-> js_getalias(nc[i])]

C13_FieldsStep ==
    (status = "scan" /\ status' = "scan") =>
        IF models' # models
        THEN /\ FieldNames(Last(models').fields) = FieldNames(m.fields)
             /\ m'.fields = <<>>
        ELSE \/ /\ Len(m'.fields) = Len(m.fields) + 1
                /\ SubSeq(m'.fields, 1, Len(m.fields)) = m.fields
             \/ /\ Len(m'.fields) = Len(m.fields)
                /\ FieldNames(m'.fields) = FieldNames(m.fields)
                /\ \A i \in 1..(Len(m.fields) - 1) : m'.fields[i] = m.fields[i]
             \/ /\ last' = Id("jsgen_ignore")
                /\ m'.fields = Front(m.fields)

C13_EmittedInOrder ==
    \A i \in 1..Len(emitted) :
        /\ emitted[i].model = models[i]
        /\ models[i].parse =>
              /\ DispatchKeys(emitted[i].dispatch) = KeysInOrder(models[i].fields)
              /\ Last(emitted[i].dispatch).key = NULL
        /\ models[i].stringify =>
              StringifyKeys(emitted[i].stringify) = KeysInOrder(models[i].fields)

NameKeywords ==
    EnablingKeywords \cup
    {"const", "typedef", "struct", "alias", "jsgen_alias", "sized_by", "jsgen_sized_by",
     "jsgen_ignore", "jsgen_json_literal", "json_literal"}

C14_AtNamePosition ==
    (status = "scan" /\ p.in_struct /\ p.level = 0) =>
        \A S \in NextTokens :
            (S.lex.token.k = "id" /\ S.lex.token.s \notin NameKeywords) =>
                \A S2 \in handle_id(S, Vocabs[vocab]) :
                    /\ S2.m.simple_name = S.lex.token.s
                    /\ S2.m.name = IF p.in_typedef THEN <<S.lex.token.s>>
                                   ELSE <<"struct ", S.lex.token.s>>

C14_NameStep ==
    (status = "scan" /\ status' = "scan") =>
        IF models' # models
        THEN /\ Last(models').simple_name = m.simple_name
             /\ Last(models').name = m.name
        ELSE (m'.simple_name # m.simple_name \/ m'.name # m.name) =>
                /\ p.in_struct /\ p.level = 0
                /\ m'.name = IF p.in_typedef THEN <<m'.simple_name>>
                             ELSE <<"struct ", m'.simple_name>>

C14_NamePosition == []C14_AtNamePosition /\ [][C14_NameStep]_vars

C14_Witness ==
    /\ status = "scan"
    /\ Len(models) = 1
    /\ models[1].simple_name = "n"
    /\ models[1].name = <<"n">>
    /\ models[1].fields # <<>>

(* C16: when parse_file returns failure the registry is what it was when   *)
(* the scan of the file started (empty, the file being the first one),     *)
(* whatever complete declarations the file held before the failure.        *)
C16_FailedFileAddsNothing ==
    status = "fail" => models = <<>>

(***************************************************************************)
(* C15: once main has returned for a command line with an argument: if     *)
(* the scan of some file failed, the failing scan was the last one made,   *)
(* the exit status is not 0 and nothing was written; if none failed, the   *)
(* status is 0 and one output unit was written, holding the two include    *)
(* directives and then the generated code of the registry's Models in      *)
(* registry order.                                                         *)
(***************************************************************************)
C15_ExitBehaviour ==
    (drv.at = "returned" /\ Len(drv.argv) >= 1) =>
        IF \E k \in 1..Len(drv.scanned) : drv.scanned[k] # 0
        THEN /\ drv.rc # 0
             /\ drv.written = <<>>
             /\ \A k \in 1..(Len(drv.scanned) - 1) : drv.scanned[k] = 0
        ELSE /\ drv.rc = 0
             /\ Len(drv.written) = 1
             /\ drv.written[1].includes = <<"jsb.h", "jsp.h">>
             /\ drv.written[1].code = [i \in 1..Len(drv.models) |-> generate_model_code(drv.models[i])]

(***************************************************************************)
(* C17: a value call of the builder returns 0 exactly when, before the     *)
(* call, the builder was at the beginning of the document (the             *)
(* zero-initialised builder included), directly inside an array, or inside *)
(* an object just after a key; otherwise it returns -1 and the buffer, the *)
(* level and the state stack are what they were.                           *)
(***************************************************************************)
ValueCalls ==
    {"jsb_nstring", "jsb_int", "jsb_number", "jsb_bool", "jsb_null", "jsb_date_fmt",
     "jsb_begin_object", "jsb_begin_array"}

AtDocumentStart(j) == j.level = 0 /\ j.state[1] = "START"
InsideArray(j)     == j.level > 0 /\ j.state[j.level + 1] = "ARRAY"
AfterKey(j)        == j.level > 0 /\ j.state[j.level + 1] = "OBJECT" /\ j.is_key

C17_ValueCallAccepted ==
    builder.call \in ValueCalls =>
        LET was == builder.was
            valid == AtDocumentStart(was) \/ InsideArray(was) \/ AfterKey(was)
        IN  /\ builder.rc = 0 <=> valid
            /\ builder.rc # 0 =>
                  /\ builder.rc = 0 - 1
                  /\ builder.j.buffer = was.buffer
                  /\ builder.j.level = was.level
                  /\ builder.j.state = was.state

(***************************************************************************)
(* C18: after any calls of ds_hm_set and ds_hm_remove that returned,       *)
(* resizes of the table included, ds_hm_try(k) points to the value last    *)
(* set for k when k was not removed since and is NULL otherwise; size is   *)
(* the number of keys present; ds_hm_set on a key that is present leaves   *)
(* size as it was.                                                         *)
(***************************************************************************)
Present == { k \in Keys : hm.set[k] # Unset }

C18_TryFindsLastSet ==
    /\ \A k \in Keys :
          IF k \in Present
          THEN /\ ~ds_hm_try(hm.map, k).null
               /\ Deref(hm.map, ds_hm_try(hm.map, k)) = hm.set[k]
          ELSE ds_hm_try(hm.map, k).null
    /\ hm.map.size = Cardinality(Present)
    /\ (hm.call = "ds_hm_set" /\ hm.had[hm.key] # Unset) => hm.map.size = hm.was.size
    /\ hm.call = "ds_hm_try" =>
          /\ hm.ret = ds_hm_try(hm.map, hm.key)
          /\ hm.key \in Present => hm.reads = hm.set[hm.key]

C18_Witness ==
    /\ hm.alive
    /\ hm.call = "ds_hm_set"
    /\ Len(hm.map.table) > Len(hm.was.table)
    /\ Len(hm.was.table) > 0
    /\ hm.had[hm.key] \notin {Unset, hm.set[hm.key]}
    /\ \E h \in 1..Len(hm.was.table) : Len(hm.was.table[h]) > 1

(***************************************************************************)
(* C19: ds_hm_get(k) returns the stored value when k is present and the    *)
(* zero value when it is absent, and leaves the map as it was, in every    *)
(* state of the map, the zero-initialised map included.                    *)
(***************************************************************************)
C19_GetStoredOrZero ==
    hm.call = "ds_hm_get" =>
        /\ hm.alive
        /\ hm.map = hm.was
        /\ hm.reads = IF hm.had[hm.key] = Unset THEN 0 ELSE hm.had[hm.key]

(***************************************************************************)
(* C20: ds_hm_remove(k) on a map that holds k removes the pair of k and    *)
(* no other (size is one less, every other key keeps its value) and        *)
(* returns a pointer through which the removed value is read; on a map     *)
(* that does not hold k it returns NULL and the map is what it was.        *)
(***************************************************************************)
C20_RemoveExactlyOne ==
    hm.call = "ds_hm_remove" =>
        /\ hm.alive
        /\ IF hm.had[hm.key] # Unset
           THEN /\ hm.map.size = hm.was.size - 1
                /\ ds_hm_try(hm.map, hm.key).null
                /\ \A k \in Keys \ {hm.key} :
                      ds_hm_try(hm.map, k).null = ds_hm_try(hm.was, k).null
                /\ \A k \in Keys \ {hm.key} :
                      ~ds_hm_try(hm.was, k).null =>
                          Deref(hm.map, ds_hm_try(hm.map, k)) = Deref(hm.was, ds_hm_try(hm.was, k))
                /\ ~hm.ret.null
                /\ hm.reads = hm.had[hm.key]
           ELSE /\ hm.ret.null
                /\ hm.map = hm.was

(***************************************************************************)
(* C21: the key dispatch emitted for a Model with parse set is a chain     *)
(* `if (strcmp(key, k1)) {..} else if (strcmp(key, k2)) {..} else {skip}`  *)
(* with one comparison per non-counter field, in declaration order,        *)
(* against that field's alias (or name) and followed by that field's value *)
(* extraction, no comparison for a counter field, and the skip-value call  *)
(* for every other key; a parse run takes the first matching branch and    *)
(* skips the value of a key that matches none.                             *)
(***************************************************************************)
ChainOpeners(chain) == [i \in 1..Len(chain) |-> chain[i].opener]

IfElseChain(n) ==
    [i \in 1..(n + 1) |-> IF i = n + 1 THEN (IF n = 0 THEN "{" ELSE "} else {")
                          ELSE IF i = 1 THEN "if" ELSE "} else if"]

C21_Branches(c) ==
    LET nc == SelectSeq(c.model.fields, NotCounter) IN
    /\ Len(c.dispatch) = Len(nc) + 1
    /\ \A i \in 1..Len(nc) :
          /\ c.dispatch[i].key = js_getalias(nc[i])
          /\ c.dispatch[i].body = gen_parse_field_body(nc[i])
    /\ Last(c.dispatch).key = NULL
    /\ Last(c.dispatch).body = <<[op |-> "skip"]>>

(* The key of the one-member document handed to the parser. *)
DocKey(text) == IF Len(text) > 4 THEN <<text[3]>> ELSE <<>>

C21_Run(c) ==
    LET nc  == SelectSeq(c.model.fields, NotCounter)
        hit == { i \in 1..Len(nc) : Chars(js_getalias(nc[i])) = DocKey(run.text) }
    IN  DocKey(run.text) # <<>> =>
            IF hit = {}
            THEN /\ run.res.skipped = <<DocKey(run.text)>>
                 /\ run.res.out = Blank(c.model)
            ELSE /\ \A s \in 1..Len(run.res.skipped) : run.res.skipped[s] # DocKey(run.text)
                 /\ run.res.rc = 0 =>
                       run.res.out[nc[CHOOSE i \in hit : \A j \in hit : i <= j].name] # JunkV

C21_DispatchChain ==
    /\ \A i \in 1..Len(emitted) :
          emitted[i].model.parse =>
              /\ C21_Branches(emitted[i])
              /\ ChainOpeners(emitted[i].dispatch) =
                    IfElseChain(Len(SelectSeq(models[i].fields, NotCounter)))
    /\ run.kind = "parse" => C21_Run(emitted[run.i])

(***************************************************************************)
(* C22: when the parser emitted for a pointer string field marked          *)
(* is_json_literal has extracted a value that is an object or an array,    *)
(* the member holds the characters of that value as they stand in the      *)
(* text, from its opening to its matching closing character: the ordinary  *)
(* string-pointer assignment neither overwrites it nor sets it to null.    *)
(***************************************************************************)
(* The value of the one-member document, as it stands in the text. *)
DocValue(text) == SubSeq(text, 6, Len(text) - 1)

LiteralFields(model) ==
    { i \in 1..Len(model.fields) :
        /\ model.fields[i].is_json_literal
        /\ model.fields[i].is_pointer
        /\ ~model.fields[i].is_counter_field
        /\ get_jsp_type(model.fields[i].type) = "string" }

C22_LiteralCaptured ==
    (run.kind = "parse" /\ DocKey(run.text) # <<>>) =>
        \A i \in LiteralFields(emitted[run.i].model) :
            LET f == emitted[run.i].model.fields[i] IN
            (/\ Chars(js_getalias(f)) = DocKey(run.text)
             /\ DocValue(run.text)[1] \in {"{", "["}
             /\ run.res.rc = 0)
                => run.res.out[f.name] = StrV(DocValue(run.text))

(***************************************************************************)
(* C23: when the generated list parser has read the opening bracket and    *)
(* then returns an error, because an element failed to parse or because    *)
(* the closing bracket is missing, *out is null and *out_count is 0.       *)
(***************************************************************************)
C23_ListFailureResets ==
    (run.kind = "parse_list" /\ run.text[1] = "[" /\ run.res.rc # 0) =>
        /\ run.res.out = NullV
        /\ run.res.out_count = 0

(***************************************************************************)
(* C24: in a run of a generated parser, once a call of the JSON parser     *)
(* (other than the jsp_key that ends the member loop) or of a nested       *)
(* generated parser has returned an error, the function makes no further   *)
(* call and returns an error to its caller.                                *)
(***************************************************************************)
C24_FailurePropagated ==
    (run.kind \in {"parse", "parse_list"} /\ run.res.failed) =>
        /\ run.res.rc # 0
        /\ ~run.res.late

(***************************************************************************)
(* C25: an annotation keyword read inside a record body while generation   *)
(* is enabled never starts a field declaration: no field of the working    *)
(* Model or of a Model in the registry has an annotation keyword as its    *)
(* type or as its name.                                                    *)
(***************************************************************************)
AnnotationKeywords ==
    {"alias", "jsgen_alias", "sized_by", "jsgen_sized_by", "ignore", "jsgen_ignore",
     "json_literal", "jsgen_json_literal"}

C25_KeywordNeverField ==
    \A mm \in {m} \cup { models[i] : i \in 1..Len(models) } :
        \A i \in 1..Len(mm.fields) :
            /\ mm.fields[i].name \notin AnnotationKeywords
            /\ mm.fields[i].simple_type \notin AnnotationKeywords

(***************************************************************************)
(* C26: while the working Model holds a field, a step in which            *)
(* parse_field_annotation handles alias, sized_by or json_literal leaves   *)
(* the scan running with the same number of fields, every field but the    *)
(* last as it was, and the last field changed only in what the keyword     *)
(* sets; a step that handles jsgen_ignore leaves the fields without their  *)
(* last one.  So an annotation read after an ignore changes the field      *)
(* declared before the ignored one.                                        *)
(***************************************************************************)
AnnotatedAs(kw, old, new) ==
    IF IsAliasKw(kw)
    THEN new = [old EXCEPT !.has_alias = TRUE, !.alias = new.alias]
    ELSE IF IsSizedByKw(kw)
    THEN new = [old EXCEPT !.has_counter = TRUE, !.is_array = TRUE,
                           !.counter_field = new.counter_field]
    ELSE new = [old EXCEPT !.is_json_literal = TRUE]

C26_Step ==
    (status = "scan" /\ last'.k = "id" /\ m.fields # <<>>) =>
        IF last' = Id("jsgen_ignore")
        THEN /\ status' = "scan"
             /\ m'.fields = Front(m.fields)
        ELSE (IsAliasKw(last'.s) \/ IsSizedByKw(last'.s) \/ IsLiteralKw(last'.s)) =>
             /\ status' = "scan"
             /\ Len(m'.fields) = Len(m.fields)
             /\ Front(m'.fields) = Front(m.fields)
             /\ AnnotatedAs(last'.s, Last(m.fields), Last(m'.fields))

C26_OnlyLastField == [][C26_Step]_vars

C26_Witness ==
    /\ status = "scan"
    /\ last = Id("sized_by")
    /\ Len(m.fields) = 2
    /\ m.fields[2].has_counter /\ m.fields[2].is_array
    /\ m.fields[1] = [Field0 EXCEPT !.name = "n", !.type = <<"int">>, !.simple_type = "int"]

(***************************************************************************)
(* C27: a step that appends a field leaves the earlier fields and the      *)
(* brace level as they were and hands back every token read after the      *)
(* field's identifier, so the scan loop reads next the token that follows  *)
(* the identifier; the new field is marked is_array and is_pointer when    *)
(* that token is an opening bracket (the bracket, what it encloses and the *)
(* closing bracket are then all still to be read by the loop, and the      *)
(* statement terminator after them), and is no array otherwise.            *)
(***************************************************************************)
BracketAhead(ahead) ==
    /\ ahead # <<>>
    /\ Head(ahead) = Ch("[")

C27_Step ==
    (/\ status = "scan" /\ status' = "scan"
     /\ models' = models
     /\ Len(m'.fields) = Len(m.fields) + 1) =>
        /\ Front(m'.fields) = m.fields
        /\ p'.level = p.level
        /\ IF BracketAhead(lex'.ahead)
           THEN /\ Last(m'.fields).is_array
                /\ Last(m'.fields).is_pointer
                /\ \E i \in 1..Len(lex'.ahead) : lex'.ahead[i] = Ch("]")
           ELSE /\ ~Last(m'.fields).is_array
                /\ Last(m'.fields).is_pointer <=> Last(Last(m'.fields).type) = "*"

C27_BracketMarksField == [][C27_Step]_vars

C27_Witness ==
    /\ status = "scan"
    /\ p.level = 1
    /\ lex.ahead = <<Ch("["), IntLit, Ch("]")>>
    /\ Len(m.fields) = 2
    /\ m.fields[2].name = "a" /\ m.fields[2].is_array /\ m.fields[2].is_pointer
    /\ ~m.fields[1].is_array

(***************************************************************************)
(* C28: for every field, type is the type identifier, preceded by          *)
(* "struct " exactly when in_substruct was set as the declaration began    *)
(* and followed by "*" when a pointer marker was read (the field is then   *)
(* is_pointer); simple_type is the type identifier alone, without prefix   *)
(* and without marker; in_substruct is cleared by the step that reads the  *)
(* field, so the next field is not prefixed.                               *)
(***************************************************************************)
AllFields ==
    UNION { { mm.fields[i] : i \in 1..Len(mm.fields) }
            : mm \in {m} \cup { models[i] : i \in 1..Len(models) } }

TypeOf(field) ==
    { pre \o <<field.simple_type>> \o post :
        pre \in {<<>>, <<"struct ">>}, post \in {<<>>, <<"*">>} }

C28_Shape ==
    \A f \in AllFields :
        /\ f.type \in TypeOf(f)
        /\ Last(f.type) = "*" => f.is_pointer

C28_Step ==
    (/\ status = "scan" /\ status' = "scan"
     /\ models' = models
     /\ Len(m'.fields) = Len(m.fields) + 1) =>
        /\ Head(Last(m'.fields).type) = "struct " <=> p.in_substruct
        /\ ~p'.in_substruct

C28_TypeAndBase == []C28_Shape /\ [][C28_Step]_vars

C28_Witness ==
    /\ status = "scan"
    /\ ~p.in_substruct
    /\ Len(m.fields) = 1
    /\ m.fields[1].type = <<"struct ", "Foo", "*">>
    /\ m.fields[1].simple_type = "Foo"

(* C28 as stated: simple_type is type without its pointer marker, the      *)
(* prefix included.                                                        *)
C28_BaseIsTypeUnpointed ==
    \A f \in AllFields :
        <<f.simple_type>> = IF Last(f.type) = "*" THEN Front(f.type) ELSE f.type

(***************************************************************************)
(* C29: the step in which the scan of a file stops at the end of the token *)
(* stream while in_struct is set is parse_file returning 0, with the       *)
(* registry and the working Model as they were: the open Model is not      *)
(* appended.                                                               *)
(***************************************************************************)
C29_EndStep ==
    (status = "scan" /\ status' # "scan" /\ lex'.ended /\ p.in_struct) =>
        /\ status' = "ok"
        /\ models' = models
        /\ m' = m

C29_EndInRecordSucceeds == [][C29_EndStep]_vars

(***************************************************************************)
(* C30: whenever the token an iteration of parse_file's loop reads is      *)
(* CLEX_parse_error, with generation enabled or not, the scan has failed:  *)
(* parse_file returns -1.                                                  *)
(***************************************************************************)
C30_ParseErrorFails == last.k = "err" => status = "fail"

(***************************************************************************)
(* C31: the Type Resolver maps int, long and size_t to Integer for         *)
(* stringify and Number for parse, float and double to Number in both      *)
(* (written with precision 5), bool to Boolean, char* to String and every  *)
(* other base type to Nested; one pointer marker on a scalar type resolves *)
(* to the kind of the scalar.                                              *)
(***************************************************************************)
IntegralTypes == {"int", "long", "size_t"}
FloatingTypes == {"float", "double"}

(* What the claim gives for a type string of at most one pointer marker:   *)
(* the parse-time kind and the stringify kind, NULL standing for Nested.   *)
KindOf(type) ==
    LET name == IF Len(type) = 2 /\ type[2] = "*" THEN <<type[1]>> ELSE type
    IN  IF type = <<"char", "*">> THEN [jsp |-> "string", jsb |-> "string"]
        ELSE IF Len(name) # 1 THEN [jsp |-> NULL, jsb |-> NULL]
        ELSE IF name[1] \in IntegralTypes THEN [jsp |-> "number", jsb |-> "int"]
        ELSE IF name[1] \in FloatingTypes THEN [jsp |-> "number", jsb |-> "number"]
        ELSE IF name[1] = "bool" THEN [jsp |-> "boolean", jsb |-> "bool"]
        ELSE [jsp |-> NULL, jsb |-> NULL]

PointerMarkers(type) == Cardinality({ i \in 1..Len(type) : type[i] = "*" })

(* The text _stringify_T writes for a record whose one member a holds 1,   *)
(* T's stringifier being made of the statements stmts.                     *)
WrittenFor(stmts) ==
    Stringify([stringify |-> stmts], JsbZero(0), [n \in {"a"} |-> IntV(1)]).j.buffer

C31_TypeMapping ==
    (resolver.calls > 0 /\ PointerMarkers(resolver.type) <= 1) =>
        /\ resolver.jsp = KindOf(resolver.type).jsp
        /\ resolver.jsb = KindOf(resolver.type).jsb
        /\ (resolver.field # Field0 /\ ~resolver.field.is_pointer) =>
              \/ /\ resolver.jsb = NULL
                 /\ resolver.stringify =
                       <<[op |-> "key", k |-> "a"],
                         [op |-> "nested", ty |-> resolver.field.simple_type, f |-> "a"]>>
                 /\ resolver.parse =
                       <<[op |-> "nested", f |-> "a", ty |-> resolver.field.simple_type]>>
              \/ /\ resolver.jsb \in {"int", "number", "bool"}
                 /\ resolver.parse =
                       <<[op |-> "value"], [op |-> "assign", f |-> "a", from |-> resolver.jsp]>>
                 /\ WrittenFor(resolver.stringify) =
                       <<"{", "\"", "a", "\"", ":", " ">> \o
                       (IF resolver.jsb = "int" THEN <<"1">>
                        ELSE IF resolver.jsb = "bool" THEN <<"t", "r", "u", "e">>
                        ELSE <<"1", ".", "0", "0", "0", "0", "0">>) \o <<"}">>

C31_Witness ==
    /\ resolver.field.type = <<"long", "*">>
    /\ resolver.field.is_pointer
    /\ resolver.jsp = "number"
    /\ resolver.jsb = "int"

(***************************************************************************)
(* C32: the key-dispatch chain emitted for a Model with parse set is well  *)
(* formed: its first branch opens with a plain `if`, every later field     *)
(* branch with `} else if`, and the skip-value branch that ends it opens   *)
(* with `} else {` only if a field branch stands before it (with `{`       *)
(* otherwise), also when the first field or every field is a counter.      *)
(***************************************************************************)
WellFormedChain(chain) ==
    /\ chain # <<>>
    /\ \A b \in 1..(Len(chain) - 1) :
          chain[b].opener = IF b = 1 THEN "if" ELSE "} else if"
    /\ Last(chain).opener = IF Len(chain) > 1 THEN "} else {" ELSE "{"

C32_ChainWellFormed ==
    \A i \in 1..Len(emitted) :
        emitted[i].model.parse => WellFormedChain(emitted[i].dispatch)

(***************************************************************************)
(* C33: the scan of a file terminates on every finite token stream: once   *)
(* the lexer has delivered the end of the stream, in a record body or      *)
(* behind a field's opening bracket too, the scan is over (parse_file has  *)
(* returned, or the process has ended in it).                              *)
(***************************************************************************)
ScanOver == status \in {"ok", "fail", "generated", "crash"}

C33_ScanTerminates == lex.ended ~> ScanOver

(***************************************************************************)
(* C34: when a Model is finalized (appended to the registry), the rest of  *)
(* the Extractor's state is as it was at the start of the file: level 0,   *)
(* generation not enabled, in_typedef, in_struct, in_substruct and the     *)
(* field-seen flag unset, the working Model zeroed; so a declaration is    *)
(* read the same way whatever declarations precede it in the file.         *)
(***************************************************************************)
C34_Step == Len(models') = Len(models) + 1 => (p' = Parser0 /\ m' = Model0)

C34_FinalizeResets == [][C34_Step]_vars

(***************************************************************************)
(* C35: every field the Extractor produces whose declared type resolves to *)
(* String has is_pointer set, so the parser emitted for a registry Model   *)
(* never holds the non-pointer String case (the bounded copy into a        *)
(* fixed-size member).                                                     *)
(***************************************************************************)
RECURSIVE OpsOf(_, _)
(* The names of the statements of a branch body, from the i-th on. *)
OpsOf(body, i) == IF i > Len(body) THEN {} ELSE {body[i].op} \cup OpsOf(body, i + 1)

EmittedParseOps ==
    UNION { UNION { OpsOf(emitted[i].dispatch[b].body, 1) :
                      b \in 1..Len(emitted[i].dispatch) } :
              i \in 1..Len(emitted) }

C35_StringIsPointer ==
    /\ \A f \in AllFields : get_jsp_type(f.type) = "string" => f.is_pointer
    /\ "strncpy" \notin EmittedParseOps

C35_Witness ==
    /\ status = "generated"
    /\ "strptr" \in EmittedParseOps
    /\ \E f \in AllFields : f.simple_type = "char" /\ ~f.is_pointer
    /\ \E f \in AllFields : f.type = <<"char", "*">> /\ f.is_pointer

(***************************************************************************)
(* C36: a bare-array field declaration adds exactly one field to the       *)
(* Model: the step that reads it appends one field and leaves the others,  *)
(* and while the tokens between its brackets are scanned again (an         *)
(* identifier, a `*`, a number, up to the closing bracket) no field is     *)
(* appended and none is changed.                                           *)
(***************************************************************************)
(* The unread tokens start at a field's opening bracket or between its     *)
(* brackets: a closing bracket comes before any other opening one.         *)
CloserAhead(ahead) ==
    \E i \in 1..Len(ahead) :
        /\ ahead[i] = Ch("]")
        /\ \A j \in 2..(i - 1) : ahead[j] # Ch("[")

C36_Step ==
    (status = "scan" /\ status' = "scan") =>
        /\ (BracketAhead(lex'.ahead) /\ m'.fields # m.fields) =>
              /\ Len(m'.fields) = Len(m.fields) + 1
              /\ Front(m'.fields) = m.fields
        /\ CloserAhead(lex.ahead) => (m'.fields = m.fields /\ models' = models)

C36_BracketsAddOneField == [][C36_Step]_vars

(***************************************************************************)
(* C37: whenever every call of the builder so far returned 0 and the       *)
(* builder is back at level 0, the buffer holds one well-formed JSON       *)
(* document: brackets and braces balance, every key of an object is        *)
(* followed by exactly one value, and sibling elements are separated by    *)
(* exactly one comma.                                                      *)
(***************************************************************************)
Whitespace(c) == c = LF \/ c = " "

(* The first position from i on that holds no blank (Len(t) + 1 if none). *)
AfterBlanks(t, i) ==
    CHOOSE k \in i..(Len(t) + 1) :
        /\ k = Len(t) + 1 \/ ~Whitespace(t[k])
        /\ \A n \in i..(k - 1) : Whitespace(t[n])

(* The position after the digits that start at i. *)
AfterDigits(t, i) ==
    CHOOSE k \in i..(Len(t) + 1) :
        /\ k = Len(t) + 1 \/ ~IsDigit(t[k])
        /\ \A n \in i..(k - 1) : IsDigit(t[n])

Has(t, i, c) == i <= Len(t) /\ t[i] = c

HasWord(t, i, word) ==
    i + Len(word) - 1 <= Len(t) /\ SubSeq(t, i, i + Len(word) - 1) = word

(* The position after a JSON number that starts at i, 0 if there is none. *)
FractionEnd(t, i) ==
    IF ~Has(t, i, ".") THEN i
    ELSE IF AfterDigits(t, i + 1) = i + 1 THEN 0
    ELSE AfterDigits(t, i + 1)

IntegerEnd(t, i) == IF AfterDigits(t, i) = i THEN 0 ELSE FractionEnd(t, AfterDigits(t, i))

NumberEnd(t, i) == IntegerEnd(t, IF Has(t, i, "-") THEN i + 1 ELSE i)

RECURSIVE StringEnd(_, _)
(* The position after the quote that closes the string whose text starts at i. *)
StringEnd(t, i) ==
    IF i > Len(t) THEN 0
    ELSE IF t[i] = "\"" THEN i + 1
    ELSE IF t[i] = "\\" THEN StringEnd(t, i + 2)
    ELSE StringEnd(t, i + 1)

RECURSIVE ValueEnd(_, _), ElementsEnd(_, _), ElementEnd(_, _), MembersEnd(_, _),
          MemberColon(_, _), MemberEnd(_, _)
(* The position after the JSON value that starts at i, 0 if there is none. *)
ValueEnd(t, i) ==
    IF i > Len(t) THEN 0
    ELSE IF t[i] = "\"" THEN StringEnd(t, i + 1)
    ELSE IF t[i] = "[" THEN
        (IF Has(t, AfterBlanks(t, i + 1), "]") THEN AfterBlanks(t, i + 1) + 1
         ELSE ElementsEnd(t, AfterBlanks(t, i + 1)))
    ELSE IF t[i] = "{" THEN
        (IF Has(t, AfterBlanks(t, i + 1), "}") THEN AfterBlanks(t, i + 1) + 1
         ELSE MembersEnd(t, AfterBlanks(t, i + 1)))
    ELSE IF HasWord(t, i, <<"n", "u", "l", "l">>) THEN i + 4
    ELSE IF HasWord(t, i, <<"t", "r", "u", "e">>) THEN i + 4
    ELSE IF HasWord(t, i, <<"f", "a", "l", "s", "e">>) THEN i + 5
    ELSE NumberEnd(t, i)

(* One element at i, then `,` and more elements or the closing bracket. *)
ElementsEnd(t, i) == ElementEnd(t, ValueEnd(t, i))

ElementEnd(t, e) ==
    IF e = 0 THEN 0
    ELSE IF Has(t, AfterBlanks(t, e), "]") THEN AfterBlanks(t, e) + 1
    ELSE IF Has(t, AfterBlanks(t, e), ",") THEN ElementsEnd(t, AfterBlanks(t, AfterBlanks(t, e) + 1))
    ELSE 0

(* One "key": value member at i, then `,` and more members or the closing brace. *)
MembersEnd(t, i) ==
    IF ~Has(t, i, "\"") THEN 0 ELSE MemberColon(t, StringEnd(t, i + 1))

MemberColon(t, k) ==
    IF k = 0 \/ ~Has(t, AfterBlanks(t, k), ":") THEN 0
    ELSE MemberEnd(t, ValueEnd(t, AfterBlanks(t, AfterBlanks(t, k) + 1)))

MemberEnd(t, e) ==
    IF e = 0 THEN 0
    ELSE IF Has(t, AfterBlanks(t, e), "}") THEN AfterBlanks(t, e) + 1
    ELSE IF Has(t, AfterBlanks(t, e), ",") THEN MembersEnd(t, AfterBlanks(t, AfterBlanks(t, e) + 1))
    ELSE 0

DocumentEnds(t, e) == e # 0 /\ AfterBlanks(t, e) = Len(t) + 1

WellFormedJson(t) == DocumentEnds(t, ValueEnd(t, AfterBlanks(t, 1)))

C37_WellFormedAtLevelZero ==
    (builder.calls > 0 /\ ~builder.failed /\ builder.j.level = 0)
        => WellFormedJson(builder.j.buffer)

(***************************************************************************)
(* C38: after any calls of the builder the nesting level is in             *)
(* 0..JSB_MAX_NESTING-1, so every access to the state stack is inside the  *)
(* array; jsb_begin_object and jsb_begin_array called at the maximum depth *)
(* return -1 and leave the builder as it was.                              *)
(***************************************************************************)
BeginCalls == {"jsb_begin_object", "jsb_begin_array"}

C38_LevelInsideStack ==
    /\ builder.j.level \in 0..(JSB_MAX_NESTING - 1)
    /\ (builder.call \in BeginCalls /\ builder.was.level = JSB_MAX_NESTING - 1)
          => (builder.rc = 0 - 1 /\ builder.j = builder.was)

(***************************************************************************)
(* C39: after any calls of jsgen_basic_alloc and jsgen_free the used       *)
(* offset is between 0 and JSGEN_BASIC_ALLOC_SIZE; an allocation of size s *)
(* that succeeds returns the region starting at the offset before the call *)
(* and advances the offset by s, so the regions returned since the last    *)
(* jsgen_free do not overlap; a request larger than the space that remains *)
(* returns NULL and leaves the offset as it was; jsgen_free sets the       *)
(* offset to 0.                                                            *)
(***************************************************************************)
Overlap(a, b) == a.at < b.at + b.size /\ b.at < a.at + a.size

C39_BasicAllocator ==
    /\ arena.used \in 0..JSGEN_BASIC_ALLOC_SIZE
    /\ \A i, k \in 1..Len(arena.regions) : i # k => ~Overlap(arena.regions[i], arena.regions[k])
    /\ \A i \in 1..Len(arena.regions) :
          arena.regions[i].at + arena.regions[i].size <= arena.used
    /\ arena.call = "jsgen_basic_alloc" =>
          IF arena.size > JSGEN_BASIC_ALLOC_SIZE - arena.was_used
          THEN arena.ptr = NoRegion /\ arena.used = arena.was_used
          ELSE arena.ptr = arena.was_used /\ arena.used = arena.was_used + arena.size
    /\ arena.call = "jsgen_free" => arena.used = 0

(* Two regions that fill the block, then a request of one byte refused. *)
C39_Witness ==
    /\ Len(arena.regions) = 2
    /\ arena.regions[1].size > 0
    /\ arena.regions[2].size > 0
    /\ arena.used = JSGEN_BASIC_ALLOC_SIZE
    /\ arena.call = "jsgen_basic_alloc"
    /\ arena.size = 1
    /\ arena.ptr = NoRegion

(***************************************************************************)
(* C40: the Type Resolver strips exactly one trailing pointer marker       *)
(* before its second lookup: for a primitive type T the type string T*     *)
(* resolves to the kind of T, and a type string that ends with two or more *)
(* pointer markers resolves to Nested (NULL) in both lookups.              *)
(***************************************************************************)
PrimitiveTypes == IntegralTypes \cup FloatingTypes \cup {"bool"}

====
